---- MODULE Spec2Model ----
(***************************************************************************)
(* Model of lumera-supply: the vesting engine, Computer.ComputeSnapshot,   *)
(* the SnapshotCache (Get / Update / RunRefresher) and the HTTP snapshot   *)
(* path (Server.snapshot and its handlers).                                *)
(*                                                                         *)
(* Amounts are Go strings holding base-10 integers; they are TLA+ strings  *)
(* here ("0", "15", "" for the empty string) and big.Int.SetString /       *)
(* big.Int.String are SetString / ToString.  Times are integers (model     *)
(* time units); pointers are <<>> (nil) or <<v>>, and snapshot pointers    *)
(* are indexes into the heap of allocated snapshots (0 is nil).            *)
(***************************************************************************)
EXTENDS Integers, Sequences, FiniteSets, TLC

(***************************************************************************)
(* Bounds of the model.                                                    *)
(***************************************************************************)
\* the unit in which the data source's amounts are drawn
AmtUnit == 5
\* the cache's TTL in model time units (the service configures 60 s)
TTL == 1
\* the wall clock stops advancing here
MaxNow == 2
\* the chain stops producing blocks at this height
MaxHeight == 2
\* ComputeSnapshot calls started in one run of the service
MaxUpdates == 2
\* length of one calendar month in model time units (time.AddDate)
MonthLen == 1

\* the instants the vesting functions are called with are 0..MaxTime
MaxTime == 6
\* the longest list of tranches PeriodicLocked is called with
MaxPeriods == 3
\* the limiter's burst (main configures 120), and the refill ticks counted
\* for one client
Burst == 2
MaxTicks == 3
\* the largest time.Duration (what Time.Sub saturates at), in model time units
MaxDuration == 4

\* largest integer whose decimal numeral the model reads back
ParseMax == 40 * AmtUnit + 40

(***************************************************************************)
(* Strings and big integers.                                               *)
(***************************************************************************)
Numerals == {ToString(n) : n \in 0..ParseMax}
ParseTable == [s \in Numerals |-> CHOOSE n \in 0..ParseMax : ToString(n) = s]

\* new(big.Int).SetString(s, 10): (value, ok); on failure the value is nil
SetString(s) ==
    IF s \in Numerals THEN [ok |-> TRUE, n |-> ParseTable[s]]
    ELSE [ok |-> FALSE, n |-> 0]

\* big.Int.Quo: division truncated towards zero (d > 0)
Quo(x, d) == IF x >= 0 THEN x \div d ELSE 0 - ((0 - x) \div d)

\* time.Time{} (the zero time, long before every chain time)
ZeroTime == 0 - 1000

\* t.Format(time.RFC3339): one text per instant
FormatTime(t) == "T" \o ToString(t)

\* fmt.Sscan(s, &sec): the integer read, 0 when s holds none
Sscan(s) == IF SetString(s).ok THEN SetString(s).n ELSE 0

\* t.AddDate(0, months, 0)
AddDate(t, months) == t + months * MonthLen

(***************************************************************************)
(* vesting.Engine                                                          *)
(***************************************************************************)
\* a delayed lock that still holds at the end instant
DelayedLockedInclusive(total, now, end) ==
    IF now > end THEN "0" ELSE total

DelayedLocked(total, now, end) ==
    IF ~(now < end) THEN "0" ELSE total

mulRatio(total, num, den) ==
    IF den <= 0 THEN "0"
    ELSE LET T   == SetString(total).n
             rem == den - num
             res == Quo(T * rem, den)
         IN  IF res < 0 THEN "0" ELSE ToString(res)

\* t.Sub(u): the difference, or the largest (smallest) Duration when the
\* difference does not fit one
Sub(t, u) ==
    IF t - u > MaxDuration THEN MaxDuration
    ELSE IF t - u < 0 - MaxDuration THEN 0 - MaxDuration
    ELSE t - u

ContinuousLocked(total, now, start, end) ==
    IF ~(now < start) /\ ~(now < end) THEN "0"
    ELSE IF now < start THEN total
    ELSE mulRatio(total, Sub(now, start), Sub(end, start))

RECURSIVE PeriodicSum(_, _, _)
PeriodicSum(periods, now, i) ==
    IF i > Len(periods) THEN 0
    ELSE (IF now < periods[i].End THEN SetString(periods[i].Amount).n ELSE 0)
         + PeriodicSum(periods, now, i + 1)

\* a sum that also counts the tranche ending at now
PeriodicLockedAtOrAfter(periods, now) == ToString(PeriodicSum(periods, now - 1, 1))

PeriodicLocked(periods, now) == ToString(PeriodicSum(periods, now, 1))

\* a cliff test the wrong way round
ClawbackLockedAfterCliff(total, now, start, cliff, end) ==
    IF ~(now < cliff) THEN total ELSE ContinuousLocked(total, now, start, end)

ClawbackLocked(total, now, start, cliff, end) ==
    IF now < cliff THEN total ELSE ContinuousLocked(total, now, start, end)

PermanentLocked(total) == total

(***************************************************************************)
(* supply.Computer: one account's locked amount                            *)
(***************************************************************************)
\* the loop "for _, c := range coins { if c.Denom == denom { x = c.Amount; break } }"
RECURSIVE CoinAmount(_, _, _, _)
CoinAmount(coins, denom, default, i) ==
    IF i > Len(coins) THEN default
    ELSE IF coins[i].Denom = denom THEN coins[i].Amount
    ELSE CoinAmount(coins, denom, default, i + 1)

\* strings.Contains(typ, name) for the type URLs the chain serves
TypePrefixes == {"", "/cosmos.vesting.v1beta1."}
Contains(typ, name) == \E p \in TypePrefixes : typ = p \o name

\* parseTS: seconds since epoch in a string; "" is the zero time
parseTS(s) == IF s = "" THEN ZeroTime ELSE Sscan(s)

\* the periods timeline: tranche i ends at start + (length_1 + ... + length_i)
RECURSIVE BuildPeriods(_, _, _, _, _)
BuildPeriods(vp, start, denom, elapsed, i) ==
    IF i > Len(vp) THEN <<>>
    ELSE LET e == elapsed + Sscan(vp[i].Length)
         IN  <<[End |-> start + e, Amount |-> CoinAmount(vp[i].Amount, denom, "0", 1)]>>
             \o BuildPeriods(vp, start, denom, e, i + 1)

\* end.Format(RFC3339) unless end.IsZero()
EndStr(end) == IF end # ZeroTime THEN FormatTime(end) ELSE ""

\* a dispatch that does not take a clawback account as a periodic one
lockedAndEndClawbackUnknown(acct, now, denom) ==
    LET ov      == CoinAmount(acct.original_vesting, denom, "0", 1)
        start   == parseTS(acct.start_time)
        end     == parseTS(acct.end_time)
        periods == BuildPeriods(acct.vesting_periods, start, denom, 0, 1)
    IN  IF acct.err
        THEN [locked |-> "", end |-> "", typ |-> "", err |-> TRUE]
        ELSE IF ov = "0"
        THEN [locked |-> "0", end |-> "", typ |-> acct.typ, err |-> FALSE]
        ELSE IF Contains(acct.typ, "PermanentLockedAccount")
        THEN [locked |-> PermanentLocked(ov), end |-> "forever",
              typ |-> acct.typ, err |-> FALSE]
        ELSE IF Contains(acct.typ, "DelayedVestingAccount")
        THEN [locked |-> DelayedLocked(ov, now, end), end |-> EndStr(end),
              typ |-> acct.typ, err |-> FALSE]
        ELSE IF Contains(acct.typ, "ContinuousVestingAccount")
        THEN [locked |-> ContinuousLocked(ov, now, start, end), end |-> EndStr(end),
              typ |-> acct.typ, err |-> FALSE]
        ELSE IF Contains(acct.typ, "PeriodicVestingAccount")
        THEN [locked |-> PeriodicLocked(periods, now),
              end |-> IF Len(periods) > 0
                      THEN FormatTime(periods[Len(periods)].End) ELSE "",
              typ |-> acct.typ, err |-> FALSE]
        ELSE [locked |-> "0", end |-> "", typ |-> acct.typ, err |-> FALSE]

\* (locked, endDate, accountType, err) for the account JSON acct that
\* lcd.AuthAccount returned for one address
lockedAndEndFromAuthAccount(acct, now, denom) ==
    LET ov      == CoinAmount(acct.original_vesting, denom, "0", 1)
        start   == parseTS(acct.start_time)
        end     == parseTS(acct.end_time)
        periods == BuildPeriods(acct.vesting_periods, start, denom, 0, 1)
    IN  IF acct.err
        THEN [locked |-> "", end |-> "", typ |-> "", err |-> TRUE]
        ELSE IF ov = "0"
        THEN [locked |-> "0", end |-> "", typ |-> acct.typ, err |-> FALSE]
        ELSE IF Contains(acct.typ, "PermanentLockedAccount")
        THEN [locked |-> PermanentLocked(ov), end |-> "forever",
              typ |-> acct.typ, err |-> FALSE]
        ELSE IF Contains(acct.typ, "DelayedVestingAccount")
        THEN [locked |-> DelayedLocked(ov, now, end), end |-> EndStr(end),
              typ |-> acct.typ, err |-> FALSE]
        ELSE IF Contains(acct.typ, "ContinuousVestingAccount")
        THEN [locked |-> ContinuousLocked(ov, now, start, end), end |-> EndStr(end),
              typ |-> acct.typ, err |-> FALSE]
        ELSE IF Contains(acct.typ, "PeriodicVestingAccount")
                \/ Contains(acct.typ, "ClawbackVestingAccount")
        THEN [locked |-> PeriodicLocked(periods, now),
              end |-> IF Len(periods) > 0
                      THEN FormatTime(periods[Len(periods)].End) ELSE "",
              typ |-> acct.typ, err |-> FALSE]
        ELSE [locked |-> "0", end |-> "", typ |-> acct.typ, err |-> FALSE]

(***************************************************************************)
(* supply.Computer.ComputeSnapshot                                         *)
(*                                                                         *)
(* env holds what the LCD answers during one call: a remote call's answer  *)
(* is [err, val]; policy is <<>> (nil) or <<p>>.  The result records the   *)
(* remote calls made (q), and panicked when the call ends in a run-time    *)
(* panic (big.Int.Add on the nil that SetString returns for a string that  *)
(* is no integer).                                                         *)
(***************************************************************************)
Cohort(name, reason, address, items, amount) ==
    [Name |-> name, Reason |-> reason, Address |-> address,
     Items |-> items, Amount |-> amount]

\* module accounts: resolve the name, fetch the balance, one cohort each
RECURSIVE ModuleCohorts(_, _, _)
ModuleCohorts(names, env, i) ==
    IF i > Len(names) THEN [cohorts |-> <<>>, q |-> {}]
    ELSE LET a    == env.modAddr[names[i]]
             rest == ModuleCohorts(names, env, i + 1)
         IN  IF a.err \/ a.val = ""
             THEN [rest EXCEPT !.q = @ \cup {"ModuleAddressByName"}]
             ELSE IF env.bal[a.val].err
             THEN [rest EXCEPT !.q = @ \cup {"ModuleAddressByName", "BalanceByDenom"}]
             ELSE [cohorts |-> <<Cohort("module:" \o names[i],
                                        "protocol-controlled module account",
                                        a.val, <<>>, env.bal[a.val].val)>>
                               \o rest.cohorts,
                   q |-> rest.q \cup {"ModuleAddressByName", "BalanceByDenom"}]

NoItems == [items |-> <<>>, total |-> 0, panicked |-> FALSE, q |-> {}]

\* an item appended without its amount being added to the cohort total
AddItemUncounted(acc, address, locked, end, q) ==
    IF ~SetString(locked).ok
    THEN [acc EXCEPT !.panicked = TRUE, !.q = @ \cup q]
    ELSE [items |-> Append(acc.items,
                           [Address |-> address, Amount |-> locked, EndDate |-> end]),
          total |-> IF acc.items = <<>> THEN acc.total + SetString(locked).n
                    ELSE acc.total,
          panicked |-> FALSE, q |-> acc.q \cup q]

\* v, _ := SetString(locked); totalLocked.Add(totalLocked, v); items = append(...)
AddItem(acc, address, locked, end, q) ==
    LET v == SetString(locked)
    IN  IF ~v.ok
        THEN [acc EXCEPT !.panicked = TRUE, !.q = @ \cup q]
        ELSE [items |-> Append(acc.items,
                               [Address |-> address, Amount |-> locked, EndDate |-> end]),
              total |-> acc.total + v.n, panicked |-> FALSE, q |-> acc.q \cup q]

\* foundation genesis: the locked portion per address; a failed lookup is skipped
RECURSIVE FoundationItems(_, _, _, _, _, _)
FoundationItems(acc, entries, env, t, denom, i) ==
    IF i > Len(entries) \/ acc.panicked THEN acc
    ELSE LET la == lockedAndEndFromAuthAccount(env.auth[entries[i].Address], t, denom)
             nx == IF la.err THEN [acc EXCEPT !.q = @ \cup {"AuthAccount"}]
                   ELSE AddItem(acc, entries[i].Address, la.locked, la.end, {"AuthAccount"})
         IN  FoundationItems(nx, entries, env, t, denom, i + 1)

\* one supernode bootstrap entry: on-chain lock, else the policy hints
BootstrapItem(acc, e, env, t, denom) ==
    LET la       == lockedAndEndFromAuthAccount(env.auth[e.Address], t, denom)
        fallback == la.err \/ la.locked = "0"
        bal      == env.bal[e.Address]
        endTime  == AddDate(IF e.StartTime = <<>> THEN t ELSE e.StartTime[1],
                            e.DurationMonths[1])
    IN  IF fallback /\ e.Permanent
        THEN IF ~bal.err
             THEN AddItem(acc, e.Address, bal.val, "forever",
                          {"AuthAccount", "BalanceByDenom"})
             ELSE AddItem(acc, e.Address, la.locked, la.end,
                          {"AuthAccount", "BalanceByDenom"})
        ELSE IF fallback /\ e.DurationMonths # <<>>
        THEN IF ~bal.err
             THEN AddItem(acc, e.Address, DelayedLocked(bal.val, t, endTime),
                          FormatTime(endTime), {"AuthAccount", "BalanceByDenom"})
             ELSE AddItem(acc, e.Address, la.locked, la.end,
                          {"AuthAccount", "BalanceByDenom"})
        ELSE AddItem(acc, e.Address, la.locked, la.end, {"AuthAccount"})

RECURSIVE BootstrapItems(_, _, _, _, _, _)
BootstrapItems(acc, entries, env, t, denom, i) ==
    IF i > Len(entries) \/ acc.panicked THEN acc
    ELSE BootstrapItems(BootstrapItem(acc, entries[i], env, t, denom),
                        entries, env, t, denom, i + 1)

\* a claim loop that also falls back when the on-chain lookup reports zero
ClaimItemFallbackOnZero(acc, r, months, env, t, denom) ==
    LET la      == lockedAndEndFromAuthAccount(env.auth[r.Address], t, denom)
        endTime == AddDate(IF r.Time # <<>> THEN r.Time[1] ELSE t, months)
        bal     == env.bal[r.Address]
        amt     == IF r.Amount = "" THEN (IF ~bal.err THEN bal.val ELSE "") ELSE r.Amount
        q       == IF r.Amount = "" THEN {"AuthAccount", "BalanceByDenom"}
                   ELSE {"AuthAccount"}
    IN  IF ~la.err /\ la.locked # "" /\ la.locked # "0"
        THEN AddItem(acc, r.Address, la.locked, la.end, {"AuthAccount"})
        ELSE IF amt # ""
        THEN AddItem(acc, r.Address, DelayedLocked(amt, t, endTime),
                     FormatTime(endTime), q)
        ELSE [acc EXCEPT !.q = @ \cup q]

\* one claimed account: on-chain lock, else a delayed lock from the claim time
ClaimItem(acc, r, months, env, t, denom) ==
    LET la      == lockedAndEndFromAuthAccount(env.auth[r.Address], t, denom)
        start   == IF r.Time # <<>> THEN r.Time[1] ELSE t
        endTime == AddDate(start, months)
        bal     == env.bal[r.Address]
        amt     == IF r.Amount = "" THEN (IF ~bal.err THEN bal.val ELSE "") ELSE r.Amount
        q       == IF r.Amount = "" THEN {"AuthAccount", "BalanceByDenom"}
                   ELSE {"AuthAccount"}
    IN  IF ~la.err /\ la.locked # ""
        THEN AddItem(acc, r.Address, la.locked, la.end, {"AuthAccount"})
        ELSE IF amt # ""
        THEN AddItem(acc, r.Address, DelayedLocked(amt, t, endTime),
                     FormatTime(endTime), q)
        ELSE [acc EXCEPT !.q = @ \cup q]

RECURSIVE ClaimRecs(_, _, _, _, _, _, _)
ClaimRecs(acc, recs, months, env, t, denom, i) ==
    IF i > Len(recs) \/ acc.panicked THEN acc
    ELSE ClaimRecs(ClaimItem(acc, recs[i], months, env, t, denom),
                   recs, months, env, t, denom, i + 1)

\* for tier := 1; tier <= 4; tier++ : a tier whose list fails is skipped
RECURSIVE ClaimTiers(_, _, _, _, _)
ClaimTiers(acc, env, t, denom, tier) ==
    IF tier > 4 \/ acc.panicked THEN acc
    ELSE LET a  == [acc EXCEPT !.q = @ \cup {"ClaimListClaimed"}]
             nx == IF env.claims[tier].err THEN a
                   ELSE ClaimRecs(a, env.claims[tier].recs, tier * 6, env, t, denom, 1)
         IN  ClaimTiers(nx, env, t, denom, tier + 1)

\* a sum that leaves the last cohort out
RECURSIVE SumCohortsButLast(_, _)
SumCohortsButLast(cohorts, i) ==
    IF i >= Len(cohorts) THEN [n |-> 0, panicked |-> FALSE]
    ELSE [n |-> SetString(cohorts[i].Amount).n + SumCohortsButLast(cohorts, i + 1).n,
          panicked |-> ~SetString(cohorts[i].Amount).ok
                       \/ SumCohortsButLast(cohorts, i + 1).panicked]

\* "Sum non-circ": v, _ := SetString(e.Amount); sum.Add(sum, v)
RECURSIVE SumCohorts(_, _)
SumCohorts(cohorts, i) ==
    IF i > Len(cohorts) THEN [n |-> 0, panicked |-> FALSE]
    ELSE LET v    == SetString(cohorts[i].Amount)
             rest == SumCohorts(cohorts, i + 1)
         IN  [n |-> v.n + rest.n, panicked |-> ~v.ok \/ rest.panicked]

\* the byte that separates the fields fed to the digest
NUL == "|"

\* a digest fed the five fields with nothing between them
computeETagUnseparated(height, denom, total, circ, non) ==
    denom \o total \o circ \o non \o FormatTime(height)

\* the digest is taken as collision-free: the etag is the text that is hashed
computeETag(height, denom, total, circ, non) ==
    denom \o NUL \o total \o NUL \o circ \o NUL \o non \o NUL \o FormatTime(height)

\* a difference that is made positive instead of being clamped
CirculatingAbs(T, sum) == IF T - sum < 0 THEN sum - T ELSE T - sum

\* the difference as it is, negative or not
CirculatingUnclamped(T, sum) == T - sum

\* circ := T - sum; if circ.Sign() < 0 { circ.SetInt64(0) }
Circulating(T, sum) == IF T - sum < 0 THEN 0 ELSE T - sum

Failed(q)   == [err |-> TRUE,  panicked |-> FALSE, snap |-> <<>>, q |-> q]
Panicked(q) == [err |-> FALSE, panicked |-> TRUE,  snap |-> <<>>, q |-> q]

\* IBC escrow and community pool: a failed call leaves the cohort out
EscrowCohort(env) ==
    IF ~env.esc.err
    THEN <<Cohort("ibc_escrow", "ICS20 transfer escrows", "", <<>>, env.esc.val)>>
    ELSE <<>>

CommunityPoolCohort(env) ==
    IF ~env.cp.err
    THEN <<Cohort("community_pool", "distribution community pool", "", <<>>, env.cp.val)>>
    ELSE <<>>

\* "if c.policy != nil": the policy-driven cohorts, in the order of the code
ModuleStage(policy, env) ==
    IF policy = <<>> THEN [cohorts |-> <<>>, q |-> {}]
    ELSE ModuleCohorts(policy[1].ModuleAccounts, env, 1)

FoundationStage(policy, env, denom) ==
    IF policy = <<>> \/ Len(policy[1].FoundationGenesis) = 0 THEN NoItems
    ELSE FoundationItems(NoItems, policy[1].FoundationGenesis, env, env.time, denom, 1)

BootstrapStage(policy, env, denom, fg) ==
    IF policy = <<>> \/ Len(policy[1].SupernodeBootstraps) = 0 \/ fg.panicked
    THEN NoItems
    ELSE BootstrapItems(NoItems, policy[1].SupernodeBootstraps, env, env.time, denom, 1)

ClaimStage(policy, env, denom, fg, sb) ==
    IF policy = <<>> \/ fg.panicked \/ sb.panicked THEN NoItems
    ELSE ClaimTiers(NoItems, env, env.time, denom, 1)

\* breakdown.Cohorts = append(..., CohortEntry{Items: items, Amount: total})
ItemsCohort(present, name, reason, it) ==
    IF present THEN <<Cohort(name, reason, "", it.items, ToString(it.total))>>
    ELSE <<>>

\* the breakdown's cohorts, the remote calls made for them, and whether one
\* of the loops panicked
Breakdown(policy, env, mods, fg, sb, cl) ==
    [cohorts |->
        EscrowCohort(env) \o CommunityPoolCohort(env) \o mods.cohorts
        \o ItemsCohort(policy # <<>> /\ Len(policy[1].FoundationGenesis) > 0,
                       "foundation_genesis",
                       "protocol/foundation vesting locked portion", fg)
        \o ItemsCohort(policy # <<>> /\ Len(policy[1].SupernodeBootstraps) > 0,
                       "supernode_bootstraps",
                       "protocol supernode bootstrap locks", sb)
        \o ItemsCohort(policy # <<>> /\ (cl.total > 0 \/ Len(cl.items) > 0),
                       "claim_delayed",
                       "claim module delayed locks (6/12/18/24m) with on-chain vesting preference",
                       cl),
     q |-> {"LatestHeight", "TotalSupplyByDenom", "IBCTotalEscrow", "CommunityPool"}
           \cup mods.q \cup fg.q \cup sb.q \cup cl.q,
     panicked |-> fg.panicked \/ sb.panicked \/ cl.panicked]

\* return &types.SupplySnapshot{...}
Snapshot(policy, env, denom, cohorts, sum, circ) ==
    [Denom          |-> denom,
     Height         |-> env.height,
     UpdatedAt      |-> env.time,
     ETag           |-> computeETag(env.height, denom, env.total, circ, sum),
     Total          |-> env.total,
     Circulating    |-> circ,
     Max            |-> IF policy # <<>> THEN policy[1].MaxSupply ELSE <<>>,
     NonCirculating |-> [Sum |-> sum, Cohorts |-> cohorts]]

\* circulating, etag and the return, for the cohort sum and the total T
Finish(policy, env, denom, b, sum, T) ==
    IF b.panicked \/ sum.panicked \/ ~T.ok
    THEN Panicked(b.q)
    ELSE [err |-> FALSE, panicked |-> FALSE, q |-> b.q,
          snap |-> <<Snapshot(policy, env, denom, b.cohorts, ToString(sum.n),
                              ToString(Circulating(T.n, sum.n)))>>]

SumAndReturn(policy, env, denom, b) ==
    Finish(policy, env, denom, b, SumCohorts(b.cohorts, 1), SetString(env.total))

WithClaims(policy, env, denom, fg, sb) ==
    SumAndReturn(policy, env, denom,
                 Breakdown(policy, env, ModuleStage(policy, env), fg, sb,
                           ClaimStage(policy, env, denom, fg, sb)))

WithBootstraps(policy, env, denom, fg) ==
    WithClaims(policy, env, denom, fg, BootstrapStage(policy, env, denom, fg))

\* the cohorts, once height/time and the total supply are in hand
BuildSnapshot(policy, env, denom) ==
    WithBootstraps(policy, env, denom, FoundationStage(policy, env, denom))

\* a ComputeSnapshot that looks at the two fatal errors after the cohorts
ComputeSnapshotLateCheck(policy, env, denom) ==
    IF env.heightErr \/ env.totalErr
    THEN Failed(BuildSnapshot(policy, env, denom).q)
    ELSE BuildSnapshot(policy, env, denom)

ComputeSnapshot(policy, env, denom) ==
    IF env.heightErr THEN Failed({"LatestHeight"})
    ELSE IF env.totalErr THEN Failed({"LatestHeight", "TotalSupplyByDenom"})
    ELSE BuildSnapshot(policy, env, denom)

(***************************************************************************)
(* The data source and the policy of the model.                            *)
(***************************************************************************)
DefaultDenom == "ulume"
OtherDenom   == "uatom"

ModAddr == "lumera1gov"
FndAddr == "lumera1foundation"
SnAddr  == "lumera1supernode"
ClmAddr == "lumera1claimer"
Addrs   == {ModAddr, FndAddr, SnAddr, ClmAddr}

Amt(k) == ToString(k * AmtUnit)
Ok(v)  == [err |-> FALSE, val |-> v]
Err    == [err |-> TRUE, val |-> ""]
Answer(fails, v) == IF fails THEN Err ELSE Ok(v)

Coin(denom, amount) == [Denom |-> denom, Amount |-> amount]

\* accounts as the auth module serves them
AcctErr == [err |-> TRUE, typ |-> "", original_vesting |-> <<>>,
            start_time |-> "", end_time |-> "", vesting_periods |-> <<>>]
AcctBase == [err |-> FALSE, typ |-> "/cosmos.auth.v1beta1.BaseAccount",
             original_vesting |-> <<>>, start_time |-> "", end_time |-> "",
             vesting_periods |-> <<>>]
AcctPermanent(ov) ==
    [err |-> FALSE, typ |-> "/cosmos.vesting.v1beta1.PermanentLockedAccount",
     original_vesting |-> <<Coin(OtherDenom, "1"), Coin(DefaultDenom, ov)>>,
     start_time |-> "", end_time |-> "", vesting_periods |-> <<>>]
AcctDelayed(ov, end) ==
    [err |-> FALSE, typ |-> "/cosmos.vesting.v1beta1.DelayedVestingAccount",
     original_vesting |-> <<Coin(DefaultDenom, ov)>>,
     start_time |-> "", end_time |-> ToString(end), vesting_periods |-> <<>>]
AcctContinuous(ov, start, end) ==
    [err |-> FALSE, typ |-> "/cosmos.vesting.v1beta1.ContinuousVestingAccount",
     original_vesting |-> <<Coin(DefaultDenom, ov)>>,
     start_time |-> ToString(start), end_time |-> ToString(end),
     vesting_periods |-> <<>>]
AcctPeriodic(ov, start, lens, amt) ==
    [err |-> FALSE, typ |-> "/cosmos.vesting.v1beta1.PeriodicVestingAccount",
     original_vesting |-> <<Coin(DefaultDenom, ov)>>,
     start_time |-> ToString(start), end_time |-> "",
     vesting_periods |-> [i \in 1..Len(lens) |->
                             [Length |-> ToString(lens[i]),
                              Amount |-> <<Coin(DefaultDenom, amt)>>]]]

\* policies: nil, or module accounts + foundation + one bootstrap entry
Bootstrap(permanent, months, start) ==
    [Address |-> SnAddr, Permanent |-> permanent, DurationMonths |-> months,
     StartTime |-> start]
PolicyWith(bootstraps) ==
    <<[MaxSupply |-> <<Amt(40)>>,
       ModuleAccounts |-> <<"gov">>,
       FoundationGenesis |-> <<[Name |-> "foundation", Address |-> FndAddr]>>,
       SupernodeBootstraps |-> bootstraps]>>
PolicyNil       == <<>>
PolicyPermanent == PolicyWith(<<Bootstrap(TRUE, <<>>, <<>>)>>)
PolicyDuration  == PolicyWith(<<Bootstrap(FALSE, <<6>>, <<>>)>>)
PolicyNoHint    == PolicyWith(<<Bootstrap(FALSE, <<>>, <<>>)>>)
PolicyBare      == <<[MaxSupply |-> <<>>, ModuleAccounts |-> <<>>,
                      FoundationGenesis |-> <<>>, SupernodeBootstraps |-> <<>>]>>
\* a duration hint counted from a configured start_time, over at block time
PolicyDurationFrom == PolicyWith(<<Bootstrap(FALSE, <<6>>, <<0 - 4>>)>>)
Policies == {PolicyNil, PolicyPermanent, PolicyDuration, PolicyDurationFrom,
             PolicyNoHint, PolicyBare}

\* the instant (height, block time) the model's data source reports to a
\* ComputeSnapshot call checked on its own
EnvHeight == 7
EnvTime   == 3

\* one answer of the data source per remote call; f names the calls that fail
FailNames == {"esc", "cp", "modAddr", "modBal", "fndAuth", "snAuth", "snBal",
              "clmList", "clmAuth", "clmBal"}
EnvOf(fatal, f, total, fndAcct, clmAmt) ==
    [heightErr |-> fatal = "height", height |-> EnvHeight, time |-> EnvTime,
     totalErr  |-> fatal = "total",  total  |-> total,
     esc |-> Answer("esc" \in f, Amt(2)),
     cp  |-> Answer("cp" \in f, Amt(1)),
     modAddr |-> [n \in {"gov"} |-> Answer("modAddr" \in f, ModAddr)],
     bal |-> [a \in Addrs |->
                 IF a = ModAddr THEN Answer("modBal" \in f, Amt(1))
                 ELSE IF a = SnAddr THEN Answer("snBal" \in f, Amt(4))
                 ELSE IF a = ClmAddr THEN Answer("clmBal" \in f, Amt(2))
                 ELSE Ok(Amt(3))],
     auth |-> [a \in Addrs |->
                 IF a = FndAddr THEN (IF "fndAuth" \in f THEN AcctErr ELSE fndAcct)
                 ELSE IF a = SnAddr THEN (IF "snAuth" \in f THEN AcctErr ELSE AcctBase)
                 ELSE IF a = ClmAddr
                      THEN (IF "clmAuth" \in f THEN AcctErr
                            ELSE AcctDelayed(Amt(1), EnvTime + 1))
                 ELSE AcctBase],
     claims |-> [tier \in 1..4 |->
                   IF "clmList" \in f /\ tier = 1 THEN [err |-> TRUE, recs |-> <<>>]
                   ELSE IF tier <= 2
                   THEN [err |-> FALSE,
                         recs |-> <<[Address |-> ClmAddr, Time |-> <<>>,
                                     Amount |-> clmAmt]>>]
                   ELSE [err |-> FALSE, recs |-> <<>>]]]

\* the answers when the claimed account is a plain account (nothing locked
\* on chain) and the claim records carry a claim time six months back
ClaimedEnv(f, clmAmt) ==
    [EnvOf("none", f, Amt(20), AcctBase, clmAmt)
        EXCEPT !.auth[ClmAddr] = IF "clmAuth" \in f THEN AcctErr ELSE AcctBase,
               !.claims = [tier \in 1..4 |->
                   IF "clmList" \in f /\ tier = 1 THEN [err |-> TRUE, recs |-> <<>>]
                   ELSE IF tier <= 2
                   THEN [err |-> FALSE,
                         recs |-> <<[Address |-> ClmAddr,
                                     Time |-> <<EnvTime - 6 * MonthLen>>,
                                     Amount |-> clmAmt]>>]
                   ELSE [err |-> FALSE, recs |-> <<>>]]]

FndAccts == {AcctPermanent(Amt(3)), AcctDelayed(Amt(3), EnvTime + 2)}
Totals   == {Amt(2), Amt(20)}
ClmAmts  == {"", Amt(1)}

\* foundation accounts of every lock type, around the block time: delayed
\* (ended, ending now), continuous (half way), periodic and clawback (one
\* of three tranches unlocked), an unknown type, and no amount of the denom
ClawbackType == "/cosmos.vesting.v1beta1.ClawbackVestingAccount"
MoreFndAccts ==
    {AcctDelayed(Amt(3), EnvTime - 1), AcctDelayed(Amt(3), EnvTime),
     AcctContinuous(Amt(3), EnvTime - 1, EnvTime + 1),
     AcctPeriodic(Amt(3), EnvTime - 2, <<1, 2, 1>>, Amt(1)),
     [AcctPeriodic(Amt(3), EnvTime - 2, <<1, 2, 1>>, Amt(1)) EXCEPT !.typ = ClawbackType],
     [AcctDelayed(Amt(3), EnvTime + 2) EXCEPT !.typ = "/cosmos.auth.v1beta1.BaseAccount"],
     [AcctDelayed(Amt(3), EnvTime + 2)
         EXCEPT !.original_vesting = <<Coin(OtherDenom, Amt(3))>>]}

Envs == {EnvOf(fatal, f, total, a, c) :
            fatal \in {"none"}, f \in SUBSET FailNames, total \in Totals,
            a \in FndAccts, c \in ClmAmts}
        \cup {EnvOf("none", f, Amt(20), a, "") :
                 f \in {{}, {"snAuth"}}, a \in MoreFndAccts}
        \cup {[EnvOf("none", f, Amt(20), AcctBase, "")
                  EXCEPT !.auth[SnAddr] = AcctDelayed(Amt(2), EnvTime + 1)] :
                 f \in {{}, {"snBal"}}}
        \cup {ClaimedEnv(f, c) : f \in SUBSET {"clmList", "clmAuth", "clmBal"},
                                 c \in ClmAmts}
        \cup {EnvOf(fatal, {}, Amt(20), AcctBase, "") : fatal \in {"height", "total"}}

(***************************************************************************)
(* State.                                                                  *)
(*   fn_*        one call of a pure function checked on its own            *)
(*   cs_*        one ComputeSnapshot call checked on its own               *)
(*   lim_*       ratelimit.Limiter and the requests passing Server.wrap    *)
(*   now         the wall clock                                            *)
(*   chainHeight, chainTime   the latest block the LCD serves              *)
(*   heap        the snapshots allocated so far; a pointer is an index     *)
(*   c_snap, c_etag, mu_r, mu_w   SnapshotCache: snap, etag and its RWMutex*)
(*   pc, loc     each goroutine's position and locals                      *)
(*   resp        the response a handler wrote                              *)
(*   swapLog     the snapshots stored by Update, in the order of storing   *)
(*   nUpdates    ComputeSnapshot calls started                             *)
(***************************************************************************)
VARIABLES fn_in, fn_out, cs_policy, cs_env, cs_denom, cs_out,
          lim_buckets, lim_ticks, lim_admitted, lim_pc, lim_last,
          now, chainHeight, chainTime, heap,
          c_snap, c_etag, mu_r, mu_w,
          pc, loc, resp, swapLog, nUpdates

fnVars  == <<fn_in, fn_out>>
limVars == <<lim_buckets, lim_ticks, lim_admitted, lim_pc, lim_last>>
\* everything but the cache, its goroutines and the chain
csVars  == <<fn_in, fn_out, cs_policy, cs_env, cs_denom, cs_out,
             lim_buckets, lim_ticks, lim_admitted, lim_pc, lim_last>>
sysVars == <<now, chainHeight, chainTime, heap, c_snap, c_etag, mu_r, mu_w,
             pc, loc, resp, swapLog, nUpdates>>
vars    == <<fn_in, fn_out, cs_policy, cs_env, cs_denom, cs_out,
             lim_buckets, lim_ticks, lim_admitted, lim_pc, lim_last,
             now, chainHeight, chainTime, heap, c_snap, c_etag, mu_r, mu_w,
             pc, loc, resp, swapLog, nUpdates>>

Refresher == "ref"
Handlers  == {"h1", "h2"}
Procs     == {Refresher} \cup Handlers

NoLoc  == [denom |-> "", ifNone |-> "", s |-> 0, fresh |-> FALSE,
           h |-> 0, t |-> 0, wake |-> 0]
NoResp == [status |-> 0, snap |-> 0, updated |-> FALSE, failed |-> FALSE,
           cached |-> 0, hdr |-> <<>>, body |-> <<>>]

\* the service as main starts it: an empty cache, the refresher about to
\* call Update, no request in progress
\* ratelimit.New: no bucket yet; no request at the limiter
ClientIPs == {"10.0.0.1", "10.0.0.2"}
LimReqs   == {"r1", "r2"}
NoBucket  == 0 - 1
NoLast    == [req |-> "", ip |-> "", status |-> 0]
LimInit ==
    /\ lim_buckets = [ip \in ClientIPs |-> NoBucket]
    /\ lim_ticks = [ip \in ClientIPs |-> 0]
    /\ lim_admitted = [ip \in ClientIPs |-> 0]
    /\ lim_pc = [r \in LimReqs |-> ""]
    /\ lim_last = NoLast

SysInit ==
    /\ LimInit
    /\ now = 0 /\ chainHeight = 1 /\ chainTime = 0
    /\ heap = <<>> /\ c_snap = 0 /\ c_etag = ""
    /\ mu_r = {} /\ mu_w = "none"
    /\ pc = [p \in Procs |-> IF p = Refresher THEN "u_fetch" ELSE "idle"]
    /\ loc = [p \in Procs |-> IF p = Refresher
                              THEN [NoLoc EXCEPT !.denom = DefaultDenom] ELSE NoLoc]
    /\ resp = [p \in Procs |-> NoResp]
    /\ swapLog = <<>> /\ nUpdates = 0

(***************************************************************************)
(* ComputeSnapshot on its own: the inputs are drawn in the initial state.  *)
(***************************************************************************)
InitCompute ==
    /\ cs_policy \in Policies
    /\ cs_env \in Envs
    /\ cs_denom = DefaultDenom
    /\ cs_out = <<>>
    /\ fn_in = <<>> /\ fn_out = <<>>
    /\ SysInit

CallComputeSnapshot ==
    /\ cs_out = <<>>
    /\ cs_out' = <<ComputeSnapshot(cs_policy, cs_env, cs_denom)>>
    /\ UNCHANGED <<cs_policy, cs_env, cs_denom>>
    /\ UNCHANGED fnVars
    /\ UNCHANGED sysVars
    /\ UNCHANGED limVars

NextCompute == CallComputeSnapshot

SpecCompute == InitCompute /\ [][NextCompute]_vars

(***************************************************************************)
(* Claims about ComputeSnapshot (checked under SpecCompute).               *)
(***************************************************************************)
Returned     == cs_out # <<>>
ReturnedSnap == cs_out # <<>> /\ cs_out[1].snap # <<>>
OutSnap      == cs_out[1].snap[1]
\* an amount string read as an arbitrary-precision integer
N(str)       == SetString(str).n

\* C1 (as the claim states it): in every snapshot ComputeSnapshot returns,
\* total = circulating + non_circulating.sum, whatever the total supply and
\* the cohort amounts are.
C1_TotalIsCircPlusNonCirc ==
    ReturnedSnap =>
        N(OutSnap.Total) = N(OutSnap.Circulating) + N(OutSnap.NonCirculating.Sum)

\* C1 (amended): total = circulating + non_circulating.sum in every snapshot
\* whose cohort sum does not exceed the total supply; when the cohort sum
\* exceeds the total supply, circulating is clamped to "0" (and the sum of
\* the two is then larger than total).
C1_TotalIsCircPlusNonCircUnlessClamped ==
    ReturnedSnap =>
        /\ SetString(OutSnap.Circulating).ok
        /\ N(OutSnap.NonCirculating.Sum) <= N(OutSnap.Total)
             => N(OutSnap.Total)
                  = N(OutSnap.Circulating) + N(OutSnap.NonCirculating.Sum)
        /\ N(OutSnap.NonCirculating.Sum) > N(OutSnap.Total)
             => OutSnap.Circulating = "0"

\* a snapshot with several cohorts whose sum is positive and below the total
C1_Witness ==
    /\ ReturnedSnap
    /\ Len(OutSnap.NonCirculating.Cohorts) >= 3
    /\ N(OutSnap.NonCirculating.Sum) > 0
    /\ N(OutSnap.NonCirculating.Sum) < N(OutSnap.Total)

\* C5 (as the claim states it): when the height/time fetch and the total
\* supply fetch succeed, ComputeSnapshot returns a snapshot (no error, no
\* abnormal termination) whatever other remote calls fail and whatever the
\* policy is.
C5_NonFatalFailuresNeverAbort ==
    (Returned /\ ~cs_env.heightErr /\ ~cs_env.totalErr) =>
        /\ ~cs_out[1].err
        /\ ~cs_out[1].panicked
        /\ cs_out[1].snap # <<>>

\* C6: when the height/time fetch or the total-supply fetch fails,
\* ComputeSnapshot returns an error and no snapshot, and it has made no
\* remote call other than those two.
C6_FatalFailureAborts ==
    (Returned /\ (cs_env.heightErr \/ cs_env.totalErr)) =>
        /\ cs_out[1].err
        /\ cs_out[1].snap = <<>>
        /\ cs_out[1].q \subseteq {"LatestHeight", "TotalSupplyByDenom"}
        /\ cs_env.heightErr => cs_out[1].q = {"LatestHeight"}

\* the total-supply fetch failed under a policy that lists cohorts
C6_Witness ==
    /\ Returned
    /\ cs_env.totalErr
    /\ cs_policy = PolicyPermanent
    /\ cs_out[1].err

(***************************************************************************)
(* The running service: SnapshotCache, its refresher and the HTTP handlers.*)
(***************************************************************************)
\* the policy main loaded and the answers the LCD may give to one Update
SysPolicy == PolicyPermanent
SysFails  == {{}, {"snAuth", "snBal"}}
SysEnv(fatal, f, h, t) ==
    [EnvOf(fatal, f, Amt(20), AcctPermanent(Amt(3)), Amt(1))
        EXCEPT !.height = h, !.time = t]

\* the process has not exited (a panic in the refresher goroutine ends it)
Alive == pc[Refresher] # "panic"

\* a Get that drops a snapshot older than the TTL
GetEvictStale(s, nowv) ==
    IF s = 0 THEN [s |-> 0, fresh |-> FALSE]
    ELSE IF nowv - heap[s].UpdatedAt > TTL THEN [s |-> 0, fresh |-> FALSE]
    ELSE [s |-> s, fresh |-> TRUE]

\* lines 35-41 of Get, for the pointer s read under the read lock
Get(s, nowv) ==
    IF s = 0 THEN [s |-> 0, fresh |-> FALSE]
    ELSE IF nowv - heap[s].UpdatedAt > TTL THEN [s |-> s, fresh |-> FALSE]
    ELSE [s |-> s, fresh |-> TRUE]


\* itoa64 / fmtInt: the decimal text of a block height
itoa64(n) == ToString(n)

\* the ETag, X-Block-Height and X-Updated-At headers of a 200 response, read
\* through the snapshot pointer
Headers(snap) ==
    [ETag |-> snap.ETag, XBlockHeight |-> itoa64(snap.Height),
     XUpdatedAt |-> FormatTime(snap.UpdatedAt)]

\* the body handleTotal encodes for the snapshot behind the pointer
handleTotal(snap) ==
    [denom |-> snap.Denom, decimals |-> 6, height |-> snap.Height,
     updated_at |-> snap.UpdatedAt, etag |-> snap.ETag, total |-> snap.Total,
     circulating |-> snap.Circulating,
     non_circulating |-> snap.NonCirculating.Sum, max |-> snap.Max]

\* Update returns to its caller: the refresher logs an error and sleeps TTL;
\* Server.snapshot hands the snapshot or the error to the handler, which
\* writes 200 or 502
ReturnFromUpdate(p, s, failed) ==
    IF p = Refresher
    THEN /\ pc' = [pc EXCEPT ![p] = "r_sleep"]
         /\ loc' = [loc EXCEPT ![p] = [NoLoc EXCEPT !.denom = loc[p].denom, !.s = s,
                                                   !.wake = now + TTL]]
         /\ resp' = resp
    ELSE /\ pc' = [pc EXCEPT ![p] = "done"]
         /\ loc' = [loc EXCEPT ![p] = [NoLoc EXCEPT !.denom = loc[p].denom]]
         /\ resp' = [resp EXCEPT ![p] =
                        [status |-> IF failed THEN 502 ELSE 200, snap |-> s,
                         updated |-> ~failed, failed |-> failed,
                         cached |-> IF failed THEN c_snap' ELSE 0,
                         hdr |-> IF failed THEN <<>> ELSE <<Headers(heap[s])>>,
                         body |-> <<>>]]

\* ComputeSnapshot panicked: the refresher goroutine takes the process down;
\* net/http recovers a handler's panic and closes the connection unanswered
PanicInUpdate(p) ==
    /\ pc' = [pc EXCEPT ![p] = IF p = Refresher THEN "panic" ELSE "done"]
    /\ loc' = [loc EXCEPT ![p] = [NoLoc EXCEPT !.denom = loc[p].denom]]
    /\ resp' = resp
    /\ UNCHANGED <<heap, c_snap, c_etag, swapLog>>

\* an Update that empties the cache when ComputeSnapshot fails
UpdateFailClears(p) ==
    /\ c_snap' = 0
    /\ c_etag' = ""
    /\ swapLog' = swapLog

\* Update, "if err != nil { return nil, err }": what happens to the cache
UpdateFail(p) ==
    /\ c_snap' = c_snap
    /\ c_etag' = c_etag
    /\ swapLog' = swapLog

\* an Update that takes the write lock before it computes
UpdateFetchLocked(p) ==
    /\ Alive /\ pc[p] = "u_fetch"
    /\ nUpdates < MaxUpdates
    /\ nUpdates' = nUpdates + 1
    /\ mu_w = "none" /\ mu_r = {}
    /\ mu_w' = p
    /\ pc' = [pc EXCEPT ![p] = "u_compute"]
    /\ loc' = [loc EXCEPT ![p].h = chainHeight, ![p].t = chainTime,
                          ![p].s = 0, ![p].fresh = FALSE]
    /\ UNCHANGED <<heap, c_snap, c_etag, swapLog, resp>>
    /\ UNCHANGED <<now, chainHeight, chainTime, mu_r>>
    /\ UNCHANGED csVars

\* Update, first remote call of ComputeSnapshot: the latest height and time
UpdateFetch(p) ==
    /\ Alive /\ pc[p] = "u_fetch"
    /\ nUpdates < MaxUpdates
    /\ nUpdates' = nUpdates + 1
    /\ \/ /\ pc' = [pc EXCEPT ![p] = "u_compute"]
          /\ loc' = [loc EXCEPT ![p].h = chainHeight, ![p].t = chainTime,
                                ![p].s = 0, ![p].fresh = FALSE]
          /\ UNCHANGED <<heap, c_snap, c_etag, swapLog, resp, mu_w>>
       \/ /\ ComputeSnapshot(SysPolicy, SysEnv("height", {}, 0, 0), loc[p].denom).err
          /\ UpdateFail(p)
          /\ ReturnFromUpdate(p, 0, TRUE)
          /\ UNCHANGED <<heap, mu_w>>
    /\ UNCHANGED <<now, chainHeight, chainTime, mu_r>>
    /\ UNCHANGED csVars

\* a ComputeSnapshot that writes its result into the cached object
ComputedInPlace(p, r) ==
    IF r.panicked THEN PanicInUpdate(p)
    ELSE IF r.err
    THEN UpdateFail(p) /\ ReturnFromUpdate(p, 0, TRUE) /\ heap' = heap
    ELSE /\ heap' = IF c_snap = 0 THEN Append(heap, r.snap[1])
                    ELSE [heap EXCEPT ![c_snap] = r.snap[1]]
         /\ loc' = [loc EXCEPT ![p].s = IF c_snap = 0 THEN Len(heap) + 1 ELSE c_snap,
                               ![p].h = 0, ![p].t = 0]
         /\ pc' = [pc EXCEPT ![p] = "u_lock"]
         /\ UNCHANGED <<c_snap, c_etag, swapLog, resp>>

\* s, err := c.comp.ComputeSnapshot(denom), for its outcome r
Computed(p, r) ==
    IF r.panicked THEN PanicInUpdate(p)
    ELSE IF r.err
    THEN UpdateFail(p) /\ ReturnFromUpdate(p, 0, TRUE) /\ heap' = heap
    ELSE /\ heap' = Append(heap, r.snap[1])
         /\ loc' = [loc EXCEPT ![p].s = Len(heap) + 1, ![p].h = 0, ![p].t = 0]
         /\ pc' = [pc EXCEPT ![p] = "u_lock"]
         /\ UNCHANGED <<c_snap, c_etag, swapLog, resp>>

\* Update, the rest of ComputeSnapshot (no lock is held)
UpdateCompute(p) ==
    /\ Alive /\ pc[p] = "u_compute"
    /\ \E fatal \in {"none", "total"}, f \in SysFails :
         Computed(p, ComputeSnapshot(SysPolicy, SysEnv(fatal, f, loc[p].h, loc[p].t),
                                     loc[p].denom))
    /\ UNCHANGED <<now, chainHeight, chainTime, mu_r, mu_w, nUpdates>>
    /\ UNCHANGED csVars

\* c.mu.Lock()
UpdateLock(p) ==
    /\ Alive /\ pc[p] = "u_lock"
    /\ mu_w = "none" /\ mu_r = {}
    /\ mu_w' = p
    /\ pc' = [pc EXCEPT ![p] = "u_swap"]
    /\ UNCHANGED <<now, chainHeight, chainTime, heap, c_snap, c_etag, mu_r,
                   loc, resp, swapLog, nUpdates>>
    /\ UNCHANGED csVars

\* a swap that keeps the cached snapshot when it is of a later block
SwapIfNewer(p) ==
    IF c_snap # 0 /\ heap[c_snap].Height > heap[loc[p].s].Height
    THEN c_snap' = c_snap /\ c_etag' = c_etag
    ELSE c_snap' = loc[p].s /\ c_etag' = heap[loc[p].s].ETag

\* c.snap = s; c.etag = s.ETag
Swap(p) ==
    /\ c_snap' = loc[p].s
    /\ c_etag' = heap[loc[p].s].ETag

\* the swap, c.mu.Unlock() and the return
UpdateSwap(p) ==
    /\ Alive /\ pc[p] = "u_swap"
    /\ Swap(p)
    /\ swapLog' = Append(swapLog, loc[p].s)
    /\ mu_w' = "none"
    /\ ReturnFromUpdate(p, loc[p].s, FALSE)
    /\ UNCHANGED <<now, chainHeight, chainTime, heap, mu_r, nUpdates>>
    /\ UNCHANGED csVars

\* RunRefresher: time.Sleep(c.ttl) is over, the loop calls Update again
RefresherWake ==
    /\ Alive /\ pc[Refresher] = "r_sleep"
    /\ now >= loc[Refresher].wake
    /\ pc' = [pc EXCEPT ![Refresher] = "u_fetch"]
    /\ loc' = [loc EXCEPT ![Refresher] = [NoLoc EXCEPT !.denom = DefaultDenom]]
    /\ UNCHANGED <<now, chainHeight, chainTime, heap, c_snap, c_etag, mu_r, mu_w,
                   resp, swapLog, nUpdates>>
    /\ UNCHANGED csVars

\* len(denom) for the denom parameters of the model
LongDenom == "ibc/27394FB092D2ECCD56123C74F36E4C1F926001CEADA9CA97EA622B25F41E5EB2x"
StrLen(d) == CASE d = "" -> 0
               [] d = LongDenom -> 69
               [] OTHER -> 5

parseDenom(param) ==
    LET denom == IF param = "" THEN DefaultDenom ELSE param
    IN  IF denom = "" \/ StrLen(denom) > 64 THEN [denom |-> "", ok |-> FALSE]
        ELSE [denom |-> denom, ok |-> TRUE]

\* a request reaches a snapshot handler: parseDenom, then Server.snapshot
Request(p, param, ifNone) ==
    /\ Alive /\ pc[p] = "idle"
    /\ IF parseDenom(param).ok
       THEN /\ pc' = [pc EXCEPT ![p] = "g1_rlock"]
            /\ loc' = [loc EXCEPT ![p] = [NoLoc EXCEPT !.denom = parseDenom(param).denom,
                                                      !.ifNone = ifNone]]
            /\ resp' = resp
       ELSE /\ pc' = [pc EXCEPT ![p] = "done"]
            /\ resp' = [resp EXCEPT ![p] = [NoResp EXCEPT !.status = 400]]
            /\ loc' = loc
    /\ UNCHANGED <<now, chainHeight, chainTime, heap, c_snap, c_etag, mu_r, mu_w,
                   swapLog, nUpdates>>
    /\ UNCHANGED csVars

\* Get: c.mu.RLock()
GetRLock(p) ==
    /\ Alive /\ pc[p] \in {"g1_rlock", "g2_rlock"}
    /\ mu_w = "none"
    /\ mu_r' = mu_r \cup {p}
    /\ pc' = [pc EXCEPT ![p] = IF pc[p] = "g1_rlock" THEN "g1_read" ELSE "g2_read"]
    /\ UNCHANGED <<now, chainHeight, chainTime, heap, c_snap, c_etag, mu_w,
                   loc, resp, swapLog, nUpdates>>
    /\ UNCHANGED csVars

\* the handler writes its response and ends
Served(p, status, s) ==
    /\ pc' = [pc EXCEPT ![p] = "done"]
    /\ loc' = [loc EXCEPT ![p] = [NoLoc EXCEPT !.denom = loc[p].denom]]
    /\ resp' = [resp EXCEPT ![p] =
                   [NoResp EXCEPT !.status = status, !.snap = s,
                                  !.hdr = IF status = 200 THEN <<Headers(heap[s])>>
                                          ELSE <<>>]]

\* a first Get that answers 304 without comparing the denom
SnapshotNotModifiedAnyDenom(p) ==
    /\ Alive /\ pc[p] = "g1_read"
    /\ mu_r' = mu_r \ {p}
    /\ LET g == Get(c_snap, now)
       IN  IF /\ g.s # 0 /\ g.fresh
              /\ loc[p].ifNone = heap[g.s].ETag
           THEN Served(p, 304, g.s)
           ELSE /\ pc' = [pc EXCEPT ![p] = "g2_rlock"]
                /\ loc' = [loc EXCEPT ![p].s = g.s, ![p].fresh = g.fresh,
                                      ![p].ifNone = ""]
                /\ resp' = resp
    /\ UNCHANGED <<now, chainHeight, chainTime, heap, c_snap, c_etag, mu_w,
                   swapLog, nUpdates>>
    /\ UNCHANGED csVars

\* Server.snapshot, its first Get (s := c.snap; c.mu.RUnlock(); freshness):
\* 304 on a fresh snapshot of the requested denom whose ETag is the
\* request's If-None-Match
SnapshotNotModified(p) ==
    /\ Alive /\ pc[p] = "g1_read"
    /\ mu_r' = mu_r \ {p}
    /\ LET g == Get(c_snap, now)
       IN  IF /\ g.s # 0 /\ g.fresh
              /\ loc[p].ifNone = heap[g.s].ETag
              /\ heap[g.s].Denom = loc[p].denom
           THEN Served(p, 304, g.s)
           ELSE /\ pc' = [pc EXCEPT ![p] = "g2_rlock"]
                /\ loc' = [loc EXCEPT ![p].s = g.s, ![p].fresh = g.fresh,
                                      ![p].ifNone = ""]
                /\ resp' = resp
    /\ UNCHANGED <<now, chainHeight, chainTime, heap, c_snap, c_etag, mu_w,
                   swapLog, nUpdates>>
    /\ UNCHANGED csVars

\* Server.snapshot, its second Get: the cached snapshot if it is fresh and
\* of the requested denom, else Update
SnapshotFromCache(p) ==
    /\ Alive /\ pc[p] = "g2_read"
    /\ mu_r' = mu_r \ {p}
    /\ LET g == Get(c_snap, now)
       IN  IF g.s # 0 /\ g.fresh /\ heap[g.s].Denom = loc[p].denom
           THEN Served(p, 200, g.s)
           ELSE /\ pc' = [pc EXCEPT ![p] = "u_fetch"]
                /\ loc' = [loc EXCEPT ![p].s = g.s, ![p].fresh = g.fresh]
                /\ resp' = resp
    /\ UNCHANGED <<now, chainHeight, chainTime, heap, c_snap, c_etag, mu_w,
                   swapLog, nUpdates>>
    /\ UNCHANGED csVars

\* the handler of a 200 response encodes the body, reading the snapshot
\* through the pointer Server.snapshot returned
WriteBody(p) ==
    /\ Alive /\ pc[p] = "done"
    /\ resp[p].status = 200 /\ resp[p].body = <<>>
    /\ resp' = [resp EXCEPT ![p].body = <<handleTotal(heap[resp[p].snap])>>]
    /\ UNCHANGED <<now, chainHeight, chainTime, heap, c_snap, c_etag, mu_r, mu_w,
                   pc, loc, swapLog, nUpdates>>
    /\ UNCHANGED csVars

\* the wall clock advances
Tick ==
    /\ Alive /\ now < MaxNow
    /\ now' = now + 1
    /\ UNCHANGED <<chainHeight, chainTime, heap, c_snap, c_etag, mu_r, mu_w,
                   pc, loc, resp, swapLog, nUpdates>>
    /\ UNCHANGED csVars

\* the chain produces a block
NewBlock ==
    /\ Alive /\ chainHeight < MaxHeight
    /\ chainHeight' = chainHeight + 1
    /\ chainTime' = now
    /\ UNCHANGED <<now, heap, c_snap, c_etag, mu_r, mu_w,
                   pc, loc, resp, swapLog, nUpdates>>
    /\ UNCHANGED csVars

DenomParams == {"", OtherDenom, LongDenom}
IfNoneMatch == {"", c_etag}

Init ==
    /\ cs_policy = SysPolicy
    /\ cs_env = SysEnv("none", {}, 0, 0)
    /\ cs_denom = DefaultDenom
    /\ cs_out = <<>>
    /\ fn_in = <<>> /\ fn_out = <<>>
    /\ SysInit

\* the second request is one that arrives after the first
Next ==
    \/ \E p \in Procs : UpdateFetch(p)
    \/ \E p \in Procs : UpdateCompute(p)
    \/ \E p \in Procs : UpdateLock(p)
    \/ \E p \in Procs : UpdateSwap(p)
    \/ RefresherWake
    \/ \E p \in Handlers, d \in DenomParams, e \in IfNoneMatch :
          /\ p = "h2" => pc["h1"] # "idle"
          /\ Request(p, d, e)
    \/ \E p \in Handlers : GetRLock(p)
    \/ \E p \in Handlers : SnapshotNotModified(p)
    \/ \E p \in Handlers : SnapshotFromCache(p)
    \/ \E p \in Handlers : WriteBody(p)
    \/ Tick
    \/ NewBlock

Spec == Init /\ [][Next]_vars

(***************************************************************************)
(* Claims about the cache and its callers (checked under Spec).            *)
(***************************************************************************)
Last(q) == q[Len(q)]
InUpdate == {"u_fetch", "u_compute", "u_lock", "u_swap"}

\* C2 (as the claim states it): a Get made immediately after a successful
\* Update returns the snapshot that Update stored, with fresh = true,
\* whatever the height and the block time are.
C2_GetAfterUpdateIsFresh ==
    [][\A p \in Procs :
          (pc[p] = "u_swap" /\ pc'[p] # "u_swap") =>
              /\ Get(c_snap', now').s = loc[p].s
              /\ Get(c_snap', now').fresh]_vars

\* C3: Get on the empty cache returns (absent, false); once a snapshot is
\* stored the cache never becomes empty again; a Get returns the stored
\* snapshot, fresh exactly when its age is at most the TTL (older than the
\* TTL: the same snapshot with fresh = false).
C3_GetNeverEvicts ==
    [][/\ c_snap # 0 => c_snap' # 0
       /\ \A p \in Handlers :
            (pc[p] \in {"g1_read", "g2_read"} /\ pc'[p] # pc[p]) =>
                LET got == IF pc'[p] = "done"
                           THEN [s |-> resp'[p].snap, fresh |-> TRUE]
                           ELSE [s |-> loc'[p].s, fresh |-> loc'[p].fresh]
                IN  /\ got.s = c_snap
                    /\ c_snap = 0 => ~got.fresh
                    /\ c_snap # 0 =>
                         (got.fresh <=> now - heap[c_snap].UpdatedAt <= TTL)]_vars

\* a Get has returned a snapshot of the requested denom that is older than
\* the TTL, with fresh = false
C3_Witness ==
    \E p \in Handlers :
        /\ pc[p] \in {"g2_rlock", "u_fetch"}
        /\ loc[p].s # 0 /\ ~loc[p].fresh
        /\ heap[loc[p].s].Denom = loc[p].denom
        /\ now - heap[loc[p].s].UpdatedAt > TTL

\* C4: an Update whose ComputeSnapshot fails returns the error and no
\* snapshot, and leaves the cache (snap and etag) as it was.
C4_FailedUpdateKeepsCache ==
    [][\A p \in Procs :
          (/\ pc[p] \in {"u_fetch", "u_compute"}
           /\ pc'[p] \in {"r_sleep", "done"}
           /\ p \in Handlers => resp'[p].status # 0) =>
              /\ IF p = Refresher THEN loc'[p].s = 0
                  ELSE resp'[p].failed /\ resp'[p].snap = 0
              /\ c_snap' = c_snap
              /\ c_etag' = c_etag
              /\ heap' = heap]_vars

\* an Update has failed while the cache held a snapshot, which it still holds
C4_Witness ==
    \E p \in Handlers :
        /\ pc[p] = "done" /\ resp[p].failed
        /\ resp[p].cached # 0
        /\ c_snap # 0 /\ c_etag = heap[c_snap].ETag

\* C7 (as the claim states it): when the Update a request triggered fails,
\* the requester is served the last good snapshot if the cache holds one
\* (here: one of the requested denom); it gets an error only when the cache
\* is empty.
C7_FailedUpdateServesLastGood ==
    \A p \in Handlers :
        (pc[p] = "done" /\ resp[p].failed) =>
            IF resp[p].cached # 0 /\ heap[resp[p].cached].Denom = loc[p].denom
            THEN resp[p].status = 200 /\ resp[p].snap = resp[p].cached
            ELSE resp[p].status = 502

C9_LastSwapWins ==
    /\ swapLog = <<>> => c_snap = 0
    /\ swapLog # <<>> => c_snap = Last(swapLog) /\ c_etag = heap[Last(swapLog)].ETag

\* two Updates overlapped: the one that read the older block swapped last,
\* and its snapshot is the visible one
C9_Witness ==
    /\ Len(swapLog) = 2
    /\ heap[swapLog[2]].Height < heap[swapLog[1]].Height
    /\ c_snap = swapLog[2]
    /\ \A p \in Procs : pc[p] \notin InUpdate

\* C10 (as the claim states it): the refresher calls Update at start and
\* then, forever, waits the TTL and calls Update again; an Update that fails
\* is only logged and never ends the loop.
C10_RefresherLoopNeverEnds ==
    pc[Refresher] \in InUpdate \cup {"r_sleep"}

\* C11 (as the claim states it): in every reachable state of the service the
\* cache holds at most one snapshot, and that snapshot is of the configured
\* (default) denomination, whatever denom parameters the requests carry.
C11_CacheHoldsConfiguredDenom ==
    c_snap # 0 =>
        /\ heap[c_snap].Denom = DefaultDenom
        /\ c_etag = heap[c_snap].ETag

(***************************************************************************)
(* The pure functions on their own: the arguments are drawn in the initial *)
(* state, one action per function applies it.                              *)
(***************************************************************************)
\* denoms (one holds the separator byte: the denom parameter is not
\* validated beyond its length), amounts and heights fed to computeETag
ETagDenoms  == {"u", "u" \o NUL \o "1", DefaultDenom}
ETagAmounts == {"1", "11", "111"}
ETagHeights == {1, 11}
ETagTuples  == [height : ETagHeights, denom : ETagDenoms, total : ETagAmounts,
                circ : ETagAmounts, non : ETagAmounts]
ETagInputs  == [fn : {"computeETag"}, a : ETagTuples, b : ETagTuples]

CallComputeETag ==
    /\ fn_in.fn = "computeETag" /\ fn_out = <<>>
    /\ fn_out' = <<computeETag(fn_in.a.height, fn_in.a.denom, fn_in.a.total,
                               fn_in.a.circ, fn_in.a.non),
                   computeETag(fn_in.b.height, fn_in.b.denom, fn_in.b.total,
                               fn_in.b.circ, fn_in.b.non)>>
    /\ UNCHANGED <<fn_in, cs_policy, cs_env, cs_denom, cs_out>>
    /\ UNCHANGED sysVars
    /\ UNCHANGED limVars

\* totals and instants the vesting functions are called with
VestTotals == {"0", "7", "10", "100"}
Times      == 0..MaxTime

DelayedInputs == [fn : {"DelayedLocked"}, total : VestTotals, now : Times, end : Times]

CallDelayedLocked ==
    /\ fn_in.fn = "DelayedLocked" /\ fn_out = <<>>
    /\ fn_out' = <<DelayedLocked(fn_in.total, fn_in.now, fn_in.end)>>
    /\ UNCHANGED <<fn_in, cs_policy, cs_env, cs_denom, cs_out>>
    /\ UNCHANGED sysVars
    /\ UNCHANGED limVars

ContinuousInputs == [fn : {"ContinuousLocked"}, total : VestTotals, now : Times,
                     start : Times, end : Times]

CallContinuousLocked ==
    /\ fn_in.fn = "ContinuousLocked" /\ fn_out = <<>>
    /\ fn_out' = <<ContinuousLocked(fn_in.total, fn_in.now, fn_in.start, fn_in.end)>>
    /\ UNCHANGED <<fn_in, cs_policy, cs_env, cs_denom, cs_out>>
    /\ UNCHANGED sysVars
    /\ UNCHANGED limVars

\* lists of tranches: tranche i has the amount 2^(i-1) and any end in 1..3
PeriodEnds  == 1..3
PeriodLists ==
    UNION {[1..n -> PeriodEnds] : n \in 0..MaxPeriods}
PeriodsOf(ends) ==
    [i \in 1..Len(ends) |-> [End |-> ends[i], Amount |-> ToString(2 ^ (i - 1))]]
PeriodicInputs ==
    [fn : {"PeriodicLocked"}, periods : {PeriodsOf(e) : e \in PeriodLists}, now : Times]

CallPeriodicLocked ==
    /\ fn_in.fn = "PeriodicLocked" /\ fn_out = <<>>
    /\ fn_out' = <<PeriodicLocked(fn_in.periods, fn_in.now)>>
    /\ UNCHANGED <<fn_in, cs_policy, cs_env, cs_denom, cs_out>>
    /\ UNCHANGED sysVars
    /\ UNCHANGED limVars

(***************************************************************************)
(* GET /non_circulating: what Server.handleNonCirc writes for a snapshot   *)
(* that Server.snapshot returned with status 200.                         *)
(***************************************************************************)
\* toTypesSnapshot, the items of one cohort
toTypesItems(items) ==
    [i \in 1..Len(items) |->
        [Address |-> items[i].Address, Amount |-> items[i].Amount,
         EndDate |-> items[i].EndDate]]

\* toTypesSnapshot, the cohorts
toTypesCohorts(cohorts) ==
    [i \in 1..Len(cohorts) |->
        [Name |-> cohorts[i].Name, Reason |-> cohorts[i].Reason,
         Address |-> cohorts[i].Address,
         Items |-> toTypesItems(cohorts[i].Items),
         Amount |-> cohorts[i].Amount]]

\* the verbose handling: breakdown.Cohorts = nil unless verbose is given
\* and is none of "0", "false", "False"
VerboseCohorts(coh, v) ==
    IF v = "" \/ v = "0" \/ v = "false" \/ v = "False" THEN <<>> ELSE coh

\* the body of the 200 response (decimals is the literal 6)
handleNonCirc(snap, v) ==
    [denom |-> snap.Denom, decimals |-> 6, height |-> snap.Height,
     updated_at |-> snap.UpdatedAt, etag |-> snap.ETag,
     non_circulating |->
        [sum |-> snap.NonCirculating.Sum,
         cohorts |-> VerboseCohorts(toTypesCohorts(snap.NonCirculating.Cohorts), v)]]

\* r.URL.Query().Get("verbose"): "" when the request has no such parameter
VerboseParams == {"", "0", "false", "False", "1", "true"}

\* the snapshots served: what ComputeSnapshot returns for the chain at two
\* heights, with every call answered and with the escrow call failing
ServedResults ==
    {ComputeSnapshot(SysPolicy, SysEnv("none", f, h, 1), DefaultDenom) :
        f \in {{}, {"esc"}}, h \in 1..MaxHeight}
ServedSnaps == {r.snap[1] : r \in {x \in ServedResults : x.snap # <<>>}}

NonCircInputs == [fn : {"handleNonCirc"}, snap : ServedSnaps, verbose : VerboseParams]

CallHandleNonCirc ==
    /\ fn_in.fn = "handleNonCirc" /\ fn_out = <<>>
    /\ fn_out' = <<handleNonCirc(fn_in.snap, fn_in.verbose)>>
    /\ UNCHANGED <<fn_in, cs_policy, cs_env, cs_denom, cs_out>>
    /\ UNCHANGED sysVars
    /\ UNCHANGED limVars

(***************************************************************************)
(* Two snapshots side by side: ComputeSnapshot for two policies and two    *)
(* sets of answers of the data source at the same block.                   *)
(***************************************************************************)
\* a policy that sets nothing but the max supply
PolicyMaxOnly == <<[MaxSupply |-> <<Amt(40)>>, ModuleAccounts |-> <<>>,
                    FoundationGenesis |-> <<>>, SupernodeBootstraps |-> <<>>]>>
PairPolicies == {PolicyBare, PolicyMaxOnly, PolicyPermanent}
PairEnv(f) == EnvOf("none", f, Amt(20), AcctPermanent(Amt(3)), Amt(1))
\* the answers with some calls failing, and with one more base unit in the
\* community pool
PairEnvs ==
    {PairEnv(f) : f \in {{}, {"esc"}, {"cp"}, {"modBal"}, {"fndAuth"}}}
    \cup {[PairEnv({}) EXCEPT !.cp = Ok(ToString(AmtUnit + 1))]}
PairArgs == [policy : PairPolicies, env : PairEnvs]
PairInputs == [fn : {"ComputeSnapshot"}, a : PairArgs, b : PairArgs]

CallComputeSnapshotTwice ==
    /\ fn_in.fn = "ComputeSnapshot" /\ fn_out = <<>>
    /\ fn_out' = <<ComputeSnapshot(fn_in.a.policy, fn_in.a.env, DefaultDenom),
                   ComputeSnapshot(fn_in.b.policy, fn_in.b.env, DefaultDenom)>>
    /\ UNCHANGED <<fn_in, cs_policy, cs_env, cs_denom, cs_out>>
    /\ UNCHANGED sysVars
    /\ UNCHANGED limVars

\* Engine.ClawbackLocked and Engine.PermanentLocked, called on their own
ClawbackInputs ==
    [fn : {"ClawbackLocked"}, total : VestTotals, now : Times, start : Times,
     cliff : Times, end : Times]

CallClawbackLocked ==
    /\ fn_in.fn = "ClawbackLocked" /\ fn_out = <<>>
    /\ fn_out' = <<ClawbackLocked(fn_in.total, fn_in.now, fn_in.start,
                                  fn_in.cliff, fn_in.end)>>
    /\ UNCHANGED <<fn_in, cs_policy, cs_env, cs_denom, cs_out>>
    /\ UNCHANGED sysVars
    /\ UNCHANGED limVars

PermanentInputs == [fn : {"PermanentLocked"}, total : VestTotals]

CallPermanentLocked ==
    /\ fn_in.fn = "PermanentLocked" /\ fn_out = <<>>
    /\ fn_out' = <<PermanentLocked(fn_in.total)>>
    /\ UNCHANGED <<fn_in, cs_policy, cs_env, cs_denom, cs_out>>
    /\ UNCHANGED sysVars
    /\ UNCHANGED limVars

InitPure ==
    /\ \/ fn_in \in ETagInputs
       \/ fn_in \in PeriodicInputs
       \/ fn_in \in DelayedInputs
       \/ fn_in \in ContinuousInputs
       \/ fn_in \in NonCircInputs
       \/ fn_in \in PairInputs
       \/ fn_in \in ClawbackInputs
       \/ fn_in \in PermanentInputs
    /\ fn_out = <<>>
    /\ cs_policy = PolicyNil /\ cs_env = <<>> /\ cs_denom = DefaultDenom
    /\ cs_out = <<>>
    /\ SysInit

NextPure ==
    \/ CallComputeETag
    \/ CallDelayedLocked
    \/ CallContinuousLocked
    \/ CallPeriodicLocked
    \/ CallHandleNonCirc
    \/ CallComputeSnapshotTwice
    \/ CallClawbackLocked
    \/ CallPermanentLocked

SpecPure == InitPure /\ [][NextPure]_vars

Called(fn) == fn_out # <<>> /\ fn_in.fn = fn

\* C12: the fingerprint is a function of (denom, total, circulating,
\* non_circulating.sum, height): equal tuples give equal fingerprints, and
\* tuples that differ in any component give different fingerprints (the
\* digest taken as collision-free).
C12_ETagInjective ==
    Called("computeETag") => (fn_out[1] = fn_out[2] <=> fn_in.a = fn_in.b)

\* two tuples whose denom and total are "u|1", "1" and "u", "11" (the same
\* bytes when the separator is left out) have different fingerprints
C12_Witness ==
    /\ Called("computeETag")
    /\ fn_in.a.denom = "u" \o NUL \o "1" /\ fn_in.a.total = "1"
    /\ fn_in.b.denom = "u" /\ fn_in.b.total = "11"
    /\ fn_in.a.circ = fn_in.b.circ /\ fn_in.a.non = fn_in.b.non
    /\ fn_in.a.height = fn_in.b.height
    /\ fn_out[1] # fn_out[2]

\* C13: in every snapshot ComputeSnapshot returns, circulating is
\* max(0, total - non_circulating.sum): a non-negative integer, also when the
\* cohort amounts add up to more than the total supply.
C13_CirculatingIsClampedDifference ==
    ReturnedSnap =>
        /\ SetString(OutSnap.Circulating).ok
        /\ N(OutSnap.Circulating) >= 0
        /\ N(OutSnap.Circulating) =
              (IF N(OutSnap.Total) > N(OutSnap.NonCirculating.Sum)
               THEN N(OutSnap.Total) - N(OutSnap.NonCirculating.Sum) ELSE 0)

\* a snapshot whose cohorts add up to more than the total supply
C13_Witness ==
    /\ ReturnedSnap
    /\ N(OutSnap.NonCirculating.Sum) > N(OutSnap.Total)
    /\ OutSnap.Circulating = "0"

\* C14: DelayedLocked(total, now, end) is total for every now < end and "0"
\* for every now >= end (now = end included); never a partial amount.
C14_DelayedLockedAllOrNothing ==
    Called("DelayedLocked") =>
        /\ fn_in.now < fn_in.end => fn_out[1] = fn_in.total
        /\ fn_in.now >= fn_in.end => fn_out[1] = "0"

\* a positive total asked for at the end instant itself
C14_Witness ==
    /\ Called("DelayedLocked")
    /\ fn_in.total = "100" /\ fn_in.now = fn_in.end
    /\ fn_out[1] = "0"

\* C15 (as the claim states it): for start < end and every non-negative
\* total, ContinuousLocked(total, now, start, end) is total when now < start,
\* "0" when now >= end, and otherwise floor(total * (end - now) / (end - start)).
C15_ContinuousLockedIsLinear ==
    (Called("ContinuousLocked") /\ fn_in.start < fn_in.end) =>
        fn_out[1] =
            (IF fn_in.now < fn_in.start THEN fn_in.total
             ELSE IF fn_in.now >= fn_in.end THEN "0"
             ELSE ToString((N(fn_in.total) * (fn_in.end - fn_in.now))
                           \div (fn_in.end - fn_in.start)))

\* C16 (as the claim states it): when end <= start, ContinuousLocked(total,
\* now, start, end) is "0" for every total and every now (before end, between
\* end and start, after start).
C16_DegenerateIntervalIsZero ==
    (Called("ContinuousLocked") /\ fn_in.end <= fn_in.start) => fn_out[1] = "0"

\* C17 (as the claim states it): for a continuous vesting of ov from start to
\* end (start < end), the locked amount is ov - vested, where T = end - start,
\* t = clamp(now - start, 0, T) and vested = ov * t / T truncated.
C17_ContinuousLockedIsOvMinusVested ==
    (Called("ContinuousLocked") /\ fn_in.start < fn_in.end) =>
        LET T  == fn_in.end - fn_in.start
            d  == fn_in.now - fn_in.start
            t  == IF d < 0 THEN 0 ELSE IF d > T THEN T ELSE d
        IN  /\ SetString(fn_out[1]).ok
            /\ N(fn_out[1]) = N(fn_in.total) - ((N(fn_in.total) * t) \div T)

\* C18: PeriodicLocked(periods, now) is the sum of the amounts of exactly the
\* tranches whose end is strictly after now; a tranche ending at now adds
\* nothing, and the result is "0" when no tranche ends in the future.
C18_PeriodicLockedSumsFutureTranches ==
    Called("PeriodicLocked") =>
        LET ps == fn_in.periods
            S[i \in 0..Len(ps)] ==
                IF i = 0 THEN 0
                ELSE S[i - 1] + (IF ps[i].End > fn_in.now THEN N(ps[i].Amount) ELSE 0)
        IN  /\ fn_out[1] = ToString(S[Len(ps)])
            /\ (\A i \in 1..Len(ps) : ps[i].End <= fn_in.now) => fn_out[1] = "0"

\* three tranches: one ended, one ending at now, one ending later; only the
\* last one is locked
C18_Witness ==
    /\ Called("PeriodicLocked")
    /\ Len(fn_in.periods) = 3 /\ fn_in.now = 2
    /\ fn_in.periods[1].End = 1 /\ fn_in.periods[2].End = 2
    /\ fn_in.periods[3].End = 3
    /\ fn_out[1] = "4"

(***************************************************************************)
(* The rate limiter in front of the handlers: ratelimit.Limiter and        *)
(* Server.wrap.  A request carries its X-Forwarded-For entries and the     *)
(* host of its RemoteAddr; a bucket is its channel's token count.  The     *)
(* mutex makes get one step, the channel makes the receive in Allow and    *)
(* the send of the refill goroutine one step each.                         *)
(***************************************************************************)
pureVars == <<fn_in, fn_out, cs_policy, cs_env, cs_denom, cs_out>>

\* the X-Forwarded-For headers (split at the commas) and the remote hosts
\* requests arrive with
ForwardedFor == {<<>>, <<"10.0.0.2", "10.0.0.1">>}
RemoteHosts  == ClientIPs
HttpRequests == [xff : ForwardedFor, host : RemoteHosts]

\* clientIP: the first X-Forwarded-For entry, else the RemoteAddr host
clientIP(r) == IF r.xff # <<>> THEN Head(r.xff) ELSE r.host

\* Limiter.get, the bucket of a key seen for the first time: a channel of
\* capacity burst, filled
NewBucket == Burst

\* Limiter.get under l.mu: the key's bucket, created full with its refill
\* goroutine when the key is new
get(ip) == IF lim_buckets[ip] = NoBucket
           THEN [lim_buckets EXCEPT ![ip] = NewBucket]
           ELSE lim_buckets

\* Server.wrap up to the return of l.get(ip) inside Allow
LimGet(q, r) ==
    /\ lim_pc[q] = ""
    /\ lim_buckets' = get(clientIP(r))
    /\ lim_pc' = [lim_pc EXCEPT ![q] = clientIP(r)]
    /\ UNCHANGED <<lim_ticks, lim_admitted, lim_last>>
    /\ UNCHANGED pureVars
    /\ UNCHANGED sysVars

\* the select of Allow and the rest of Server.wrap: a token received lets
\* next(w, r) run, the default case answers 429 and returns
LimAllow(q) ==
    /\ lim_pc[q] # ""
    /\ IF lim_buckets[lim_pc[q]] > 0
       THEN /\ lim_buckets' = [lim_buckets EXCEPT ![lim_pc[q]] = @ - 1]
            /\ lim_admitted' = [lim_admitted EXCEPT ![lim_pc[q]] = @ + 1]
            /\ lim_last' = [req |-> q, ip |-> lim_pc[q], status |-> 200]
       ELSE /\ lim_last' = [req |-> q, ip |-> lim_pc[q], status |-> 429]
            /\ UNCHANGED <<lim_buckets, lim_admitted>>
    /\ lim_pc' = [lim_pc EXCEPT ![q] = ""]
    /\ UNCHANGED lim_ticks
    /\ UNCHANGED pureVars
    /\ UNCHANGED sysVars

\* the send of a full channel, as a blocking refill would leave it
RefillTickUncapped(ip) ==
    /\ lim_buckets[ip] # NoBucket
    /\ lim_ticks[ip] < MaxTicks
    /\ lim_buckets' = [lim_buckets EXCEPT ![ip] = @ + 1]
    /\ lim_ticks' = [lim_ticks EXCEPT ![ip] = @ + 1]
    /\ UNCHANGED <<lim_admitted, lim_pc, lim_last>>
    /\ UNCHANGED pureVars
    /\ UNCHANGED sysVars

\* one tick of a bucket's refill goroutine: a non-blocking send, dropped
\* when the channel is full
RefillTick(ip) ==
    /\ lim_buckets[ip] # NoBucket
    /\ lim_ticks[ip] < MaxTicks
    /\ lim_buckets' = [lim_buckets EXCEPT ![ip] = IF @ < Burst THEN @ + 1 ELSE @]
    /\ lim_ticks' = [lim_ticks EXCEPT ![ip] = @ + 1]
    /\ UNCHANGED <<lim_admitted, lim_pc, lim_last>>
    /\ UNCHANGED pureVars
    /\ UNCHANGED sysVars

InitLimiter ==
    /\ fn_in = <<>> /\ fn_out = <<>>
    /\ cs_policy = PolicyNil /\ cs_env = <<>> /\ cs_denom = DefaultDenom
    /\ cs_out = <<>>
    /\ SysInit

NextLimiter ==
    \/ \E q \in LimReqs, r \in HttpRequests : LimGet(q, r)
    \/ \E q \in LimReqs : LimAllow(q)
    \/ \E ip \in ClientIPs : RefillTick(ip)

SpecLimiter == InitLimiter /\ [][NextLimiter]_vars

\* the tokens of a key's bucket, a key without a bucket counting as a full one
Tokens(b, ip) == IF b[ip] = NoBucket THEN Burst ELSE b[ip]

\* the key a step of request q is about
KeyOf(q) == IF lim_pc[q] # "" THEN lim_pc[q] ELSE lim_pc'[q]

\* a bucket holds between no and burst tokens, and what a key was admitted
\* plus what its bucket holds is at most burst plus its refill ticks
BucketBounded ==
    \A ip \in ClientIPs :
        /\ Tokens(lim_buckets, ip) \in 0..Burst
        /\ lim_admitted[ip] + Tokens(lim_buckets, ip) <= Burst + lim_ticks[ip]

\* in one step a key is admitted at most what its ticks add and its bucket
\* loses, so over any interval at most burst plus the interval's ticks
StepConserves ==
    \A ip \in ClientIPs :
        (lim_admitted'[ip] - lim_admitted[ip])
            <= (lim_ticks'[ip] - lim_ticks[ip])
               + (Tokens(lim_buckets, ip) - Tokens(lim_buckets', ip))

\* the select of Allow: with a token the request takes exactly one and goes
\* on to its handler, with none it is answered 429 and nothing is admitted
AllowTakesToken ==
    \A q \in LimReqs :
        (lim_pc[q] # "" /\ lim_pc'[q] = "") =>
            /\ lim_last'.req = q /\ lim_last'.ip = lim_pc[q]
            /\ IF lim_buckets[lim_pc[q]] = 0
               THEN lim_last'.status = 429 /\ lim_admitted' = lim_admitted
                    /\ lim_buckets' = lim_buckets
               ELSE lim_last'.status = 200
                    /\ lim_buckets'[lim_pc[q]] = lim_buckets[lim_pc[q]] - 1
                    /\ lim_admitted'[lim_pc[q]] = lim_admitted[lim_pc[q]] + 1

\* a step of a request changes the bucket and the counts of its own key only
KeysIndependent ==
    \A q \in LimReqs :
        lim_pc'[q] # lim_pc[q] =>
            \A ip \in ClientIPs \ {KeyOf(q)} :
                /\ lim_buckets'[ip] = lim_buckets[ip]
                /\ lim_admitted'[ip] = lim_admitted[ip]
                /\ lim_ticks'[ip] = lim_ticks[ip]

C20_NonCircCarriesCohorts ==
    Called("handleNonCirc") =>
        /\ fn_out[1].non_circulating.sum = fn_in.snap.NonCirculating.Sum
        /\ Len(fn_out[1].non_circulating.cohorts)
              = Len(fn_in.snap.NonCirculating.Cohorts)
        /\ \A i \in 1..Len(fn_in.snap.NonCirculating.Cohorts) :
              /\ fn_out[1].non_circulating.cohorts[i].Name
                    = fn_in.snap.NonCirculating.Cohorts[i].Name
              /\ fn_out[1].non_circulating.cohorts[i].Amount
                    = fn_in.snap.NonCirculating.Cohorts[i].Amount
              /\ fn_out[1].non_circulating.cohorts[i].Items
                    = fn_in.snap.NonCirculating.Cohorts[i].Items

(***************************************************************************)
(* Responses and the snapshot objects behind them (checked under Spec).    *)
(***************************************************************************)
\* a 200 response whose body has been written
Answered(p) == resp[p].status = 200 /\ resp[p].body # <<>>

\* headers and body of a 200 response hold the fields of the one object the
\* response was written from
OneSnapshot(p) ==
    /\ resp[p].hdr[1].ETag = heap[resp[p].snap].ETag
    /\ resp[p].hdr[1].XBlockHeight = ToString(heap[resp[p].snap].Height)
    /\ resp[p].hdr[1].XUpdatedAt = FormatTime(heap[resp[p].snap].UpdatedAt)
    /\ resp[p].body[1].height = heap[resp[p].snap].Height
    /\ resp[p].body[1].updated_at = heap[resp[p].snap].UpdatedAt
    /\ resp[p].body[1].etag = heap[resp[p].snap].ETag
    /\ resp[p].body[1].total = heap[resp[p].snap].Total
    /\ resp[p].body[1].circulating = heap[resp[p].snap].Circulating
    /\ resp[p].body[1].non_circulating = heap[resp[p].snap].NonCirculating.Sum
    /\ resp[p].body[1].max = heap[resp[p].snap].Max

\* no step changes a snapshot object that exists
NeverMutated ==
    /\ Len(heap') >= Len(heap)
    /\ \A i \in 1..Len(heap) : heap'[i] = heap[i]

\* C21: the headers (ETag, X-Block-Height, X-Updated-At) and the body fields
\* of every 200 response are those of one snapshot object, whatever Updates
\* run between the handler's reads; no step changes a snapshot once it is
\* constructed (an Update allocates a new object and swaps the pointer).
C21_ResponseFromOneSnapshot ==
    /\ [](\A p \in Handlers : Answered(p) => OneSnapshot(p))
    /\ [][NeverMutated]_vars

\* a response was written from a snapshot that an Update has replaced since
\* the handler obtained it
C21_Witness ==
    \E p \in Handlers :
        /\ Answered(p)
        /\ c_snap # resp[p].snap
        /\ heap[c_snap].Height # heap[resp[p].snap].Height

(***************************************************************************)
(* Claims about two snapshots (checked under SpecPure).                    *)
(***************************************************************************)
\* both calls returned a snapshot
TwoSnaps ==
    /\ Called("ComputeSnapshot")
    /\ fn_out[1].snap # <<>> /\ fn_out[2].snap # <<>>
SnapA == fn_out[1].snap[1]
SnapB == fn_out[2].snap[1]

\* C22: two snapshots that differ in the max supply the policy supplies, or
\* in a cohort entry of the breakdown (name, amount or per-address item),
\* have different etags.
C22_ETagCoversPolicyAndCohorts ==
    (/\ TwoSnaps
     /\ \/ SnapA.Max # SnapB.Max
        \/ SnapA.NonCirculating.Cohorts # SnapB.NonCirculating.Cohorts)
        => SnapA.ETag # SnapB.ETag

(***************************************************************************)
(* Claims about the cohorts of one snapshot (checked under SpecCompute).   *)
(***************************************************************************)
\* the sum of the amounts of a list of items, as integers
RECURSIVE ItemSum(_)
ItemSum(items) == IF items = <<>> THEN 0 ELSE N(Head(items).Amount) + ItemSum(Tail(items))

ItemCohorts == {"foundation_genesis", "supernode_bootstraps", "claim_delayed"}
OutCohorts  == OutSnap.NonCirculating.Cohorts

\* C23: in every snapshot, each cohort that lists per-address items
\* (foundation_genesis, supernode_bootstraps, claim_delayed) has an Amount
\* equal to the sum of its items' amounts, whichever lookups failed or fell
\* back.
C23_CohortAmountIsItemSum ==
    ReturnedSnap =>
        \A i \in 1..Len(OutCohorts) :
            OutCohorts[i].Name \in ItemCohorts =>
                N(OutCohorts[i].Amount) = ItemSum(OutCohorts[i].Items)

\* a snapshot whose claim cohort lists two items of a positive amount, one
\* per tier, after the on-chain lookup of the claimed account failed
C23_Witness ==
    /\ ReturnedSnap
    /\ cs_env.auth[ClmAddr].err
    /\ \E i \in 1..Len(OutCohorts) :
          /\ OutCohorts[i].Name = "claim_delayed"
          /\ Len(OutCohorts[i].Items) = 2
          /\ N(OutCohorts[i].Items[1].Amount) > 0
          /\ N(OutCohorts[i].Items[2].Amount) > 0

(***************************************************************************)
(* The sum of the breakdown and the fingerprint (checked under SpecPure).  *)
(***************************************************************************)
\* the sum of the amounts of a list of cohorts, as integers
RECURSIVE AmountSum(_)
AmountSum(cohorts) ==
    IF cohorts = <<>> THEN 0 ELSE N(Head(cohorts).Amount) + AmountSum(Tail(cohorts))

SumIsCohortSum(snap) ==
    N(snap.NonCirculating.Sum) = AmountSum(snap.NonCirculating.Cohorts)

Abs(n) == IF n < 0 THEN 0 - n ELSE n

\* two breakdowns with the same cohorts but for the Amount of one of them,
\* which is one unit apart
OneUnitApart(ca, cb) ==
    /\ Len(ca) = Len(cb)
    /\ \E j \in 1..Len(ca) :
          /\ Abs(N(ca[j].Amount) - N(cb[j].Amount)) = 1
          /\ [ca[j] EXCEPT !.Amount = cb[j].Amount] = cb[j]
          /\ \A i \in (1..Len(ca)) \ {j} : ca[i] = cb[i]

\* C24: in every snapshot non_circulating.sum is the sum of the Amount of
\* every cohort of the breakdown, and two snapshots that differ by one unit
\* in one cohort amount have different fingerprints (etags).
C24_SumOfCohortsAndFingerprint ==
    TwoSnaps =>
        /\ SumIsCohortSum(SnapA)
        /\ SumIsCohortSum(SnapB)
        /\ OneUnitApart(SnapA.NonCirculating.Cohorts, SnapB.NonCirculating.Cohorts)
              => SnapA.ETag # SnapB.ETag

\* a snapshot with the escrow, the community pool, a module cohort and a
\* fully locked foundation address, whose circulating is the total less
\* their sum, beside one with one unit more in the community pool
C24_Witness ==
    /\ TwoSnaps
    /\ Len(SnapA.NonCirculating.Cohorts) >= 4
    /\ SnapA.NonCirculating.Cohorts[4].Name = "foundation_genesis"
    /\ N(SnapA.NonCirculating.Cohorts[4].Amount) = 3 * AmtUnit
    /\ N(SnapA.Circulating) = N(SnapA.Total) - N(SnapA.NonCirculating.Sum)
    /\ N(SnapA.Circulating) > 0
    /\ OneUnitApart(SnapA.NonCirculating.Cohorts, SnapB.NonCirculating.Cohorts)
    /\ N(SnapB.NonCirculating.Sum) = N(SnapA.NonCirculating.Sum) + 1

(***************************************************************************)
(* The foundation items by lock type (checked under SpecCompute).          *)
(***************************************************************************)
\* the account the data source serves for the foundation address, its
\* original vesting of the denom, and its start and end
FndAcct  == cs_env.auth[FndAddr]
FndOv    == CoinAmount(FndAcct.original_vesting, cs_denom, "0", 1)
FndStart == parseTS(FndAcct.start_time)
FndEnd   == parseTS(FndAcct.end_time)
FndPeriods == BuildPeriods(FndAcct.vesting_periods, FndStart, cs_denom, 0, 1)

\* the policy lists the foundation address and its account lookup succeeds
FndLookedUp ==
    /\ ReturnedSnap
    /\ cs_policy # <<>> /\ cs_policy[1].FoundationGenesis # <<>>
    /\ ~FndAcct.err

\* the foundation cohort has the one item (FndAddr, amount, end)
FndItemIs(amount, end) ==
    \E i \in 1..Len(OutCohorts) :
        /\ OutCohorts[i].Name = "foundation_genesis"
        /\ OutCohorts[i].Items
              = <<[Address |-> FndAddr, Amount |-> amount, EndDate |-> end]>>

\* the foundation cohort has one item of that amount
FndAmountIs(amount) ==
    \E i \in 1..Len(OutCohorts) :
        /\ OutCohorts[i].Name = "foundation_genesis"
        /\ Len(OutCohorts[i].Items) = 1
        /\ OutCohorts[i].Items[1].Address = FndAddr
        /\ OutCohorts[i].Items[1].Amount = amount

\* C25: the item of a foundation address whose account lookup succeeds is
\* given by the account's type tag at the block time of the call: permanent,
\* the original amount with end "forever"; delayed, DelayedLocked(ov, t, end);
\* continuous, ContinuousLocked(ov, t, start, end); periodic or clawback,
\* PeriodicLocked over the tranche ends accumulated from start, with the last
\* tranche end as end date; an unknown tag or no original vesting of the
\* denom, "0" with an empty end date and no error.
C25_FoundationItemByLockType ==
    FndLookedUp =>
        IF FndOv = "0" THEN FndItemIs("0", "")
        ELSE IF Contains(FndAcct.typ, "PermanentLockedAccount")
        THEN FndItemIs(FndOv, "forever")
        ELSE IF Contains(FndAcct.typ, "DelayedVestingAccount")
        THEN FndAmountIs(DelayedLocked(FndOv, cs_env.time, FndEnd))
        ELSE IF Contains(FndAcct.typ, "ContinuousVestingAccount")
        THEN FndAmountIs(ContinuousLocked(FndOv, cs_env.time, FndStart, FndEnd))
        ELSE IF Contains(FndAcct.typ, "PeriodicVestingAccount")
                \/ Contains(FndAcct.typ, "ClawbackVestingAccount")
        THEN FndItemIs(PeriodicLocked(FndPeriods, cs_env.time),
                       IF FndPeriods = <<>> THEN ""
                       ELSE FormatTime(FndPeriods[Len(FndPeriods)].End))
        ELSE FndItemIs("0", "")

\* a clawback account of three tranches of one unit ending at 2, 4 and 5,
\* seen at block time 3: two tranches locked, end date the last tranche end
C25_Witness ==
    /\ FndLookedUp
    /\ FndAcct.typ = ClawbackType
    /\ cs_env.time = 3
    /\ FndItemIs(ToString(2 * AmtUnit), FormatTime(5))

(***************************************************************************)
(* The bootstrap entry (checked under SpecCompute).                        *)
(***************************************************************************)
\* the policy's bootstrap entry, what the chain answers for its address,
\* and the end of the window its duration hint gives
HasBootstrap == cs_policy # <<>> /\ cs_policy[1].SupernodeBootstraps # <<>>
SnEntry  == cs_policy[1].SupernodeBootstraps[1]
SnLock   == lockedAndEndFromAuthAccount(cs_env.auth[SnAddr], cs_env.time, cs_denom)
SnBal    == cs_env.bal[SnAddr]
SnWindowEnd ==
    AddDate(IF SnEntry.StartTime = <<>> THEN cs_env.time ELSE SnEntry.StartTime[1],
            SnEntry.DurationMonths[1])

\* the call got past the two fatal fetches with a bootstrap entry to evaluate
BootstrapEvaluated ==
    /\ Returned /\ ~cs_env.heightErr /\ ~cs_env.totalErr
    /\ HasBootstrap

\* the bootstrap cohort has the one item (SnAddr, amount, end)
SnItemIs(amount, end) ==
    /\ ReturnedSnap
    /\ \E i \in 1..Len(OutCohorts) :
          /\ OutCohorts[i].Name = "supernode_bootstraps"
          /\ OutCohorts[i].Items
                = <<[Address |-> SnAddr, Amount |-> amount, EndDate |-> end]>>

\* a snapshot is returned and the bootstrap cohort locks nothing
SnLocksNothing ==
    /\ ReturnedSnap
    /\ \A i \in 1..Len(OutCohorts) :
          OutCohorts[i].Name = "supernode_bootstraps" => N(OutCohorts[i].Amount) = 0

\* C26: a bootstrap entry whose on-chain lookup gives a non-zero locked
\* amount is recorded with it; when the lookup fails or gives zero, a
\* permanent hint records the current balance with end "forever", else a
\* duration_months hint records DelayedLocked(balance, block time, start +
\* months) with start the configured start_time or the block time; with
\* neither hint, or when the balance lookup fails, nothing is locked.
C26_BootstrapFallback ==
    BootstrapEvaluated =>
        IF ~SnLock.err /\ SnLock.locked # "0"
        THEN SnItemIs(SnLock.locked, SnLock.end)
        ELSE IF SnEntry.Permanent /\ ~SnBal.err
        THEN SnItemIs(SnBal.val, "forever")
        ELSE IF ~SnEntry.Permanent /\ SnEntry.DurationMonths # <<>> /\ ~SnBal.err
        THEN SnItemIs(DelayedLocked(SnBal.val, cs_env.time, SnWindowEnd),
                      FormatTime(SnWindowEnd))
        ELSE SnLocksNothing

(***************************************************************************)
(* The claimed accounts (checked under SpecCompute).                       *)
(***************************************************************************)
\* the amount of the synthetic lock of a claim record: the record's amount,
\* else the account's balance, else none
ClaimAmount(r) ==
    IF r.Amount # "" THEN <<r.Amount>>
    ELSE IF ~cs_env.bal[r.Address].err THEN <<cs_env.bal[r.Address].val>>
    ELSE <<>>

\* the end of the tier's window: the claim time, else the block time, plus
\* six months per tier
ClaimWindowEnd(r, tier) ==
    AddDate(IF r.Time # <<>> THEN r.Time[1] ELSE cs_env.time, 6 * tier)

ClaimLookup(r) == lockedAndEndFromAuthAccount(cs_env.auth[r.Address], cs_env.time, cs_denom)

\* the items the claim of a record of tier k calls for
ExpectedClaimItem(r, tier) ==
    IF ~ClaimLookup(r).err
    THEN <<[Address |-> r.Address, Amount |-> ClaimLookup(r).locked,
            EndDate |-> ClaimLookup(r).end]>>
    ELSE IF ClaimAmount(r) = <<>> THEN <<>>
    ELSE <<[Address |-> r.Address,
            Amount |-> DelayedLocked(ClaimAmount(r)[1], cs_env.time,
                                     ClaimWindowEnd(r, tier)),
            EndDate |-> FormatTime(ClaimWindowEnd(r, tier))]>>

RECURSIVE ExpectedTierItems(_, _, _)
ExpectedTierItems(recs, tier, i) ==
    IF i > Len(recs) THEN <<>>
    ELSE ExpectedClaimItem(recs[i], tier) \o ExpectedTierItems(recs, tier, i + 1)

RECURSIVE ExpectedClaimItems(_)
ExpectedClaimItems(tier) ==
    IF tier > 4 THEN <<>>
    ELSE (IF cs_env.claims[tier].err THEN <<>>
          ELSE ExpectedTierItems(cs_env.claims[tier].recs, tier, 1))
         \o ExpectedClaimItems(tier + 1)

\* the items of the claim_delayed cohort, none when the cohort is absent
RECURSIVE ClaimCohortItems(_, _)
ClaimCohortItems(cohorts, i) ==
    IF i > Len(cohorts) THEN <<>>
    ELSE IF cohorts[i].Name = "claim_delayed" THEN cohorts[i].Items
    ELSE ClaimCohortItems(cohorts, i + 1)

C28_CachedHeightNeverDecreases ==
    [][(c_snap # 0 /\ c_snap' # 0) =>
          heap'[c_snap'].Height >= heap[c_snap].Height]_vars

\* a 200 response carries a snapshot of the denom the request asked for
OkOfRequestedDenom ==
    \A p \in Handlers :
        resp[p].status = 200 => heap[resp[p].snap].Denom = loc[p].denom

\* a 304 is written at the first Get only, for a cached snapshot that is at
\* that moment fresh, of the requested denom and of the etag the request
\* carries, and the request ends there without an Update
NotModifiedOnlyOnMatch ==
    \A p \in Handlers :
        (resp'[p].status = 304 /\ resp[p].status # 304) =>
            /\ pc[p] = "g1_read" /\ pc'[p] = "done"
            /\ c_snap # 0
            /\ now - heap[c_snap].UpdatedAt <= TTL
            /\ heap[c_snap].Denom = loc[p].denom
            /\ heap[c_snap].ETag = loc[p].ifNone
            /\ nUpdates' = nUpdates /\ heap' = heap
            /\ c_snap' = c_snap /\ c_etag' = c_etag

\* C29: every answer of Server.snapshot rests on a snapshot of the requested
\* denom: a 200 carries a snapshot whose Denom is the requested one; a 304
\* is given only when the cached snapshot is at that moment fresh, of the
\* requested denom and of the request's If-None-Match etag, whatever Updates
\* for other denoms interleave; a 304 starts no Update.
C29_AnswersOfRequestedDenom ==
    /\ []OkOfRequestedDenom
    /\ [][NotModifiedOnlyOnMatch]_vars

\* one request of another denom was answered 200 from its own Update, and a
\* conditional request of that denom was answered 304
C29_Witness ==
    \E p \in Handlers, q \in Handlers :
        /\ resp[p].status = 304 /\ loc[p].denom = OtherDenom
        /\ resp[q].status = 200 /\ resp[q].updated
        /\ heap[resp[q].snap].Denom = OtherDenom

(***************************************************************************)
(* C30: the locked amount of every discipline stays within 0..total and    *)
(* never grows as now advances                                             *)
(***************************************************************************)
LockFns == {"DelayedLocked", "ContinuousLocked", "PeriodicLocked",
            "ClawbackLocked", "PermanentLocked"}

\* the called discipline with the call's amounts and schedule, at the time n
LockedAt(n) ==
    CASE fn_in.fn = "DelayedLocked" ->
            DelayedLocked(fn_in.total, n, fn_in.end)
      [] fn_in.fn = "ContinuousLocked" ->
            ContinuousLocked(fn_in.total, n, fn_in.start, fn_in.end)
      [] fn_in.fn = "PeriodicLocked" ->
            PeriodicLocked(fn_in.periods, n)
      [] fn_in.fn = "ClawbackLocked" ->
            ClawbackLocked(fn_in.total, n, fn_in.start, fn_in.cliff, fn_in.end)
      [] fn_in.fn = "PermanentLocked" ->
            PermanentLocked(fn_in.total)

RECURSIVE TrancheTotal(_, _)
TrancheTotal(periods, i) ==
    IF i > Len(periods) THEN 0
    ELSE N(periods[i].Amount) + TrancheTotal(periods, i + 1)

\* the total of the call: the sum of all tranches for PeriodicLocked
LockTotal ==
    IF fn_in.fn = "PeriodicLocked" THEN TrancheTotal(fn_in.periods, 1)
    ELSE N(fn_in.total)

\* the time of the call; PermanentLocked takes none
LockNow == IF fn_in.fn = "PermanentLocked" THEN 0 ELSE fn_in.now

LockedWithinTotal == 0 <= N(fn_out[1]) /\ N(fn_out[1]) <= LockTotal

NeverLockedAgain ==
    \A n \in Times : n >= LockNow => N(LockedAt(n)) <= N(fn_out[1])

ClawbackByCliff ==
    fn_out[1] = IF fn_in.now < fn_in.cliff THEN fn_in.total
                ELSE ContinuousLocked(fn_in.total, fn_in.now, fn_in.start, fn_in.end)

\* C30: for each of DelayedLocked, ContinuousLocked, PeriodicLocked,
\* ClawbackLocked and PermanentLocked, called with non-negative amounts, the
\* result lies between 0 and the total (the sum of all tranches for
\* PeriodicLocked), the result of the same call at any later time is no larger,
\* and ClawbackLocked is the total before the cliff and ContinuousLocked from
\* the cliff on.
C30_LockedBoundedAndNonIncreasing ==
    /\ \A f \in LockFns : Called(f) => LockedWithinTotal /\ NeverLockedAgain
    /\ Called("ClawbackLocked") => ClawbackByCliff

\* a clawback schedule past its cliff and inside its window, partly unlocked,
\* that unlocks more at the next instant
C30_Witness ==
    /\ Called("ClawbackLocked")
    /\ fn_in.start < fn_in.cliff /\ ~(fn_in.now < fn_in.cliff)
    /\ fn_in.now + 1 < fn_in.end
    /\ 0 < N(fn_out[1]) /\ N(fn_out[1]) < N(fn_in.total)
    /\ N(LockedAt(fn_in.now + 1)) < N(fn_out[1])

=============================================================================
